---------------------------- MODULE Spec2Model ----------------------------
(***************************************************************************)
(* A model of lucy-ui: the size constraint solver, the Stack layout's      *)
(* realignment, the deferred realign and the child lists of layouts, the   *)
(* mouse and focus events of a Widget, the single line TextInput editing   *)
(* state machine, the update pass over nested layouts and stacks, and the  *)
(* legacy VerticalStack.                                                   *)
(*                                                                         *)
(* Python floats are modelled as exact rationals <<n, d>> (d > 0, lowest   *)
(* terms), so that the solver's real division and its EPSILON comparison   *)
(* are computed as written; float rounding itself is not modelled.         *)
(***************************************************************************)
EXTENDS Integers, Sequences, FiniteSets, TLC

(***************************************************************************)
(* Bounds of the model.                                                    *)
(***************************************************************************)
MaxBoxes == 3

(***************************************************************************)
(* Exact rational arithmetic standing for Python's float arithmetic.       *)
(***************************************************************************)
RECURSIVE Gcd(_, _)
Gcd(a, b) == IF b = 0 THEN a ELSE Gcd(b, a % b)

AbsInt(a) == IF a < 0 THEN -a ELSE a

Rat(n, d) ==
    LET g == Gcd(AbsInt(n), d)
    IN  <<n \div g, d \div g>>

R(n) == <<n, 1>>

RatAdd(a, b) == Rat(a[1] * b[2] + b[1] * a[2], a[2] * b[2])

RatNeg(a) == <<-a[1], a[2]>>

RatSub(a, b) == RatAdd(a, RatNeg(b))

RatLt(a, b) == a[1] * b[2] < b[1] * a[2]

RatLe(a, b) == a[1] * b[2] <= b[1] * a[2]

RatAbs(a) == <<AbsInt(a[1]), a[2]>>

RatMin(a, b) == IF RatLt(b, a) THEN b ELSE a

RatMax(a, b) == IF RatLt(a, b) THEN b ELSE a

\* a / k for an integer k # 0 (Python's true division by a count)
RatDivInt(a, k) ==
    IF k < 0 THEN Rat(-a[1], a[2] * (-k)) ELSE Rat(a[1], a[2] * k)

\* a * k for an integer k (sign applied to a share)
RatMulInt(a, k) == Rat(a[1] * k, a[2])

RECURSIVE RatSum(_)
RatSum(s) == IF s = <<>> THEN R(0) ELSE RatAdd(s[1], RatSum(Tail(s)))

(***************************************************************************)
(* core/models.py: enumerations and the constrained box model.             *)
(***************************************************************************)
FIXED == "FIXED"
GROW == "GROW"
SHRINK == "SHRINK"
FLEX == "FLEX"
SizeBehavior == {FIXED, GROW, SHRINK, FLEX}

START == "START"
END == "END"
CENTER == "CENTER"
LayoutAlignment == {START, END, CENTER}

SPACE_BETWEEN == "SPACE_BETWEEN"
SPACE_AROUND == "SPACE_AROUND"
LayoutDistribution == {SPACE_BETWEEN, SPACE_AROUND}

\* StackDirection: the value is the index of the main axis
HORIZONTAL == 0
VERTICAL == 1
StackDirection == {HORIZONTAL, VERTICAL}

\* Size.__getitem__ / __setitem__: index 0 is the width, index 1 the height
Get(sz, axis) == sz[axis + 1]
Set(sz, axis, v) == [sz EXCEPT ![axis + 1] = v]

\* ConstrainedBoxModel.__init__ followed by Widget.__init__: the current size
\* is a copy of the preferred size, the limits are Size(0, 0), the widget is
\* visible and has the given behaviours
Box(pref, mn, mx, beh) ==
    [preferred_size |-> pref, current_size |-> pref,
     minimum_size |-> mn, maximum_size |-> mx,
     size_behavior |-> beh, relative_position |-> <<R(0), R(0)>>,
     is_visible |-> TRUE]

(***************************************************************************)
(* layouts/solver.py                                                       *)
(***************************************************************************)
\* Allowed smallest float error, 0.001
EPSILON == <<1, 1000>>

\* lines 26-28
TotalPreferred(widgets, axis) ==
    RatSum([i \in 1..Len(widgets) |-> Get(widgets[i].preferred_size, axis)])

\* a slip: every widget is taken as eligible, whatever its behaviour
EligibleAll(widgets, axis, direction) == [i \in 1..Len(widgets) |-> i]

\* a slip: a box that can change its size is eligible in both directions
EligibleBothWays(widgets, axis, direction) ==
    SelectSeq([i \in 1..Len(widgets) |-> i],
              LAMBDA i : Get(widgets[i].size_behavior, axis) # FIXED)

\* lines 38-53: the indices of the widgets eligible for the direction
EligibleFor(widgets, axis, direction) ==
    SelectSeq([i \in 1..Len(widgets) |-> i],
              LAMBDA i :
                 IF direction = 1
                 THEN Get(widgets[i].size_behavior, axis) \in {GROW, FLEX}
                 ELSE Get(widgets[i].size_behavior, axis) \in {SHRINK, FLEX})

\* a slip: the share computed for one box more than the eligible ones
ShareOverAll(remaining, eligible) == RatDivInt(remaining, Len(eligible) + 1)

\* line 63
Share(remaining, eligible) == RatDivInt(remaining, Len(eligible))

\* a slip: the proposed size is not clamped to the limits
ProposedUnclamped(w, axis, direction, share) ==
    RatAdd(Get(w.current_size, axis), RatMulInt(share, direction))

\* lines 67-77: the proposed size of one eligible widget, clamped
Proposed(w, axis, direction, share) ==
    LET p0 == RatAdd(Get(w.current_size, axis), RatMulInt(share, direction))
        p1 == IF direction = 1 /\ RatLt(R(0), Get(w.maximum_size, axis))
              THEN RatMin(p0, Get(w.maximum_size, axis))
              ELSE p0
    IN  IF direction = -1 THEN RatMax(p1, Get(w.minimum_size, axis)) ELSE p1

\* lines 84-87: does the widget stay eligible after it was resized
StillEligible(w, axis, direction) ==
    \/ direction = 1
       /\ RatLt(Get(w.current_size, axis), Get(w.maximum_size, axis))
    \/ direction = -1
       /\ RatLt(Get(w.minimum_size, axis), Get(w.current_size, axis))

\* lines 66-87: the for loop over the eligible widgets of one iteration;
\* k is the position in eligible, st = [widgets, remaining, new_eligible]
RECURSIVE SolveInner(_, _, _, _, _, _)
SolveInner(st, eligible, k, axis, direction, share) ==
    IF k > Len(eligible) THEN st
    ELSE LET i == eligible[k]
             w == st.widgets[i]
             proposed == Proposed(w, axis, direction, share)
             used == RatAbs(RatSub(proposed, Get(w.current_size, axis)))
             w2 == [w EXCEPT !.current_size = Set(@, axis, proposed)]
         IN  SolveInner(
                 [widgets |-> [st.widgets EXCEPT ![i] = w2],
                  remaining |-> RatSub(st.remaining, used),
                  new_eligible |-> IF StillEligible(w2, axis, direction)
                                   THEN Append(st.new_eligible, i)
                                   ELSE st.new_eligible],
                 eligible, k + 1, axis, direction, share)

\* lines 60-91: the while loop
RECURSIVE SolveLoop(_, _, _, _, _, _)
SolveLoop(widgets, remaining, eligible, iterations, axis, direction) ==
    IF RatLt(EPSILON, remaining) /\ Len(eligible) > 0
    THEN LET st == SolveInner(
                       [widgets |-> widgets, remaining |-> remaining,
                        new_eligible |-> <<>>],
                       eligible, 1, axis, direction,
                       Share(remaining, eligible))
         IN  SolveLoop(st.widgets, st.remaining, st.new_eligible,
                       iterations + 1, axis, direction)
    ELSE [widgets |-> widgets, iterations |-> iterations,
          remaining |-> remaining]

\* lines 19-91
solve_size_constraints(widgets, size, axis) ==
    LET diff == RatSub(size, TotalPreferred(widgets, axis))
        direction == IF RatLt(R(0), diff) THEN 1 ELSE -1
    IN  IF diff = R(0)
        THEN [widgets |-> widgets, iterations |-> 0, remaining |-> R(0)]
        ELSE SolveLoop(widgets, RatAbs(diff),
                       EligibleFor(widgets, axis, direction),
                       0, axis, direction)

(***************************************************************************)
(* layouts/stack.py: Stack._realign.  A stack is the record                *)
(* [direction, main_alignment, cross_alignment, distribution,              *)
(*  current_size]; children is the list self._children.  The result holds  *)
(* the children as the call leaves them, the solver's iteration count and  *)
(* raised: "none", or the exception that ended the call early.             *)
(* update_surface() of the resized widgets only touches their surfaces,    *)
(* which are not part of the model.                                        *)
(***************************************************************************)
\* a slip: hidden children are laid out too
VisibleAll(children) == [i \in 1..Len(children) |-> i]

\* line 145: the indices of the visible children, in child order
VisibleChildren(children) ==
    SelectSeq([i \in 1..Len(children) |-> i],
              LAMBDA i : children[i].is_visible)

\* a slip: the current sizes are not reset before the solve
ResetCurrentSkipped(children, visible) == children

\* lines 147-148
ResetCurrent(children, visible) ==
    [i \in 1..Len(children) |->
        IF \E k \in 1..Len(visible) : visible[k] = i
        THEN [children[i] EXCEPT !.current_size = children[i].preferred_size]
        ELSE children[i]]

\* line 150: the solver runs on the list of the visible children; res is
\* the solver's result for that list
PutBack(children, visible, res) ==
    [children |->
        [i \in 1..Len(children) |->
            IF \E k \in 1..Len(visible) : visible[k] = i
            THEN res.widgets[CHOOSE k \in 1..Len(visible) : visible[k] = i]
            ELSE children[i]],
     iterations |-> res.iterations]

SolveVisible(stack, children, visible) ==
    CHOOSE out \in
        {PutBack(children, visible, res) :
            res \in {solve_size_constraints(
                        [k \in 1..Len(visible) |-> children[visible[k]]],
                        Get(stack.current_size, stack.direction),
                        stack.direction)}} : TRUE

\* a slip: y is set to the last size instead of advanced by it
MainSizesLast(children, order, k, main_axis) ==
    IF k = 0 THEN R(0) ELSE Get(children[order[k]].current_size, main_axis)

\* lines 156, 162, 187: the sum of the main-axis sizes of the first k
\* children of the visiting order, by which y has advanced
RECURSIVE MainSizes(_, _, _, _)
MainSizes(children, order, k, main_axis) ==
    IF k = 0 THEN R(0)
    ELSE RatAdd(MainSizes(children, order, k - 1, main_axis),
                Get(children[order[k]].current_size, main_axis))

Reverse(s) == [k \in 1..Len(s) |-> s[Len(s) + 1 - k]]

IndexIn(s, i) == CHOOSE k \in 1..Len(s) : s[k] = i

\* lines 152-156: END, children visited in reverse, y accumulated first
PlaceEnd(stack, children, visible) ==
    LET main_axis == stack.direction
        order == Reverse(visible)
    IN  [i \in 1..Len(children) |->
            IF \E k \in 1..Len(order) : order[k] = i
            THEN [children[i] EXCEPT !.relative_position =
                     Set(@, main_axis,
                         RatSub(Get(stack.current_size, main_axis),
                                MainSizes(children, order,
                                          IndexIn(order, i), main_axis)))]
            ELSE children[i]]

\* lines 158-162: START, position assigned before y is advanced
PlaceStart(stack, children, visible) ==
    LET main_axis == stack.direction
    IN  [i \in 1..Len(children) |->
            IF \E k \in 1..Len(visible) : visible[k] = i
            THEN [children[i] EXCEPT !.relative_position =
                     Set(@, main_axis,
                         MainSizes(children, visible,
                                   IndexIn(visible, i) - 1, main_axis))]
            ELSE children[i]]

\* a slip: the space is divided as under SPACE_AROUND
GapCountAround(distribution, visible) == Len(visible) + 1

\* lines 171-174: the number the remaining space is divided by
GapCount(distribution, visible) ==
    IF distribution = SPACE_BETWEEN THEN Len(visible) - 1
    ELSE Len(visible) + 1

\* lines 176-179, for a divisor n # 0
Gap(remaining, n) ==
    IF RatLe(remaining, R(0)) THEN R(0) ELSE RatDivInt(remaining, n)

\* lines 181-184
CenterStart(distribution, gap) ==
    IF distribution = SPACE_BETWEEN THEN R(0) ELSE gap

\* lines 164-188: CENTER; gap = remaining / n raises ZeroDivisionError
\* for n = 0, before any position is written
PlaceCenter(stack, children, visible) ==
    LET main_axis == stack.direction
        total_space == MainSizes(children, visible, Len(visible), main_axis)
        remaining == RatSub(Get(stack.current_size, main_axis), total_space)
        n == GapCount(stack.distribution, visible)
    IN  IF n = 0
        THEN [children |-> children, raised |-> "ZeroDivisionError"]
        ELSE LET gap == Gap(remaining, n)
                 y0 == CenterStart(stack.distribution, gap)
             IN  [children |->
                     [i \in 1..Len(children) |->
                         IF \E k \in 1..Len(visible) : visible[k] = i
                         THEN LET k == IndexIn(visible, i)
                              IN  [children[i] EXCEPT !.relative_position =
                                     Set(@, main_axis,
                                         RatAdd(RatAdd(y0,
                                             MainSizes(children, visible,
                                                       k - 1, main_axis)),
                                             RatMulInt(gap, k - 1)))]
                         ELSE children[i]],
                  raised |-> "none"]

\* lines 152-188
PlaceMain(stack, children, visible) ==
    IF stack.main_alignment = END
    THEN [children |-> PlaceEnd(stack, children, visible), raised |-> "none"]
    ELSE IF stack.main_alignment = START
    THEN [children |-> PlaceStart(stack, children, visible),
          raised |-> "none"]
    ELSE PlaceCenter(stack, children, visible)

\* a slip: a growing child is never made smaller than it prefers to be
CrossGrowFromPreferred(child, available, cross_axis) ==
    RatMax(Get(child.preferred_size, cross_axis),
           IF Get(child.maximum_size, cross_axis) = R(0)
           THEN available
           ELSE RatMin(Get(child.maximum_size, cross_axis), available))

\* lines 194-197 and 215-218: the growing rule of the cross axis
CrossGrow(child, available, cross_axis) ==
    IF Get(child.maximum_size, cross_axis) = R(0)
    THEN available
    ELSE RatMin(Get(child.maximum_size, cross_axis), available)

\* lines 201-204 and 209-212: the shrinking rule of the cross axis
CrossShrink(child, available, cross_axis) ==
    IF RatLt(R(-1), Get(child.minimum_size, cross_axis))
    THEN RatMax(Get(child.minimum_size, cross_axis), available)
    ELSE available

\* lines 193-218: the cross-axis size of one child
CrossSize(child, available, cross_axis) ==
    LET beh == Get(child.size_behavior, cross_axis)
        cur == Get(child.current_size, cross_axis)
    IN  IF beh = GROW THEN CrossGrow(child, available, cross_axis)
        ELSE IF beh = SHRINK
        THEN IF RatLt(available, cur)
             THEN CrossShrink(child, available, cross_axis) ELSE cur
        ELSE IF beh = FLEX
        THEN IF RatLt(available, cur)
             THEN CrossShrink(child, available, cross_axis)
             ELSE CrossGrow(child, available, cross_axis)
        ELSE cur

\* lines 220-227: the cross-axis position of one child of size sz
CrossPosition(alignment, available, sz) ==
    IF alignment = START THEN R(0)
    ELSE IF alignment = END THEN RatSub(available, sz)
    ELSE RatSub(RatDivInt(available, 2), RatDivInt(sz, 2))

\* lines 192-227: the loop over the visible children
AdjustCross(stack, children, visible) ==
    LET cross_axis == 1 - stack.direction
        available == Get(stack.current_size, cross_axis)
    IN  [i \in 1..Len(children) |->
            IF \E k \in 1..Len(visible) : visible[k] = i
            THEN LET sz == CrossSize(children[i], available, cross_axis)
                 IN  [children[i] EXCEPT
                        !.current_size = Set(@, cross_axis, sz),
                        !.relative_position =
                            Set(@, cross_axis,
                                CrossPosition(stack.cross_alignment,
                                              available, sz))]
            ELSE children[i]]

\* lines 192-232, after the main axis is placed: an exception raised by the
\* placement ends the call before the cross axis is touched
RealignPlaced(stack, iterations, placed, visible) ==
    IF placed.raised # "none"
    THEN [children |-> placed.children, iterations |-> iterations,
          raised |-> placed.raised]
    ELSE [children |-> AdjustCross(stack, placed.children, visible),
          iterations |-> iterations, raised |-> "none"]

\* lines 152-232, after the main axis is solved
RealignSolved(stack, solved, visible) ==
    CHOOSE out \in
        {RealignPlaced(stack, solved.iterations, placed, visible) :
            placed \in {PlaceMain(stack, solved.children, visible)}} : TRUE

\* lines 147-232, for the visible children found at line 145
RealignVisible(stack, children, visible) ==
    CHOOSE out \in
        {RealignSolved(stack, solved, visible) :
            solved \in {SolveVisible(stack,
                                     ResetCurrent(children, visible),
                                     visible)}} : TRUE

\* lines 135-232.  Each intermediate result is bound once, as the element
\* of a singleton set, so that it is computed once.
Stack_realign(stack, children) ==
    CHOOSE out \in
        {RealignVisible(stack, children, visible) :
            visible \in {VisibleChildren(children)}} : TRUE

(***************************************************************************)
(* layouts/layout.py: what Layout.update does with the realign flag.  The  *)
(* result is the layout's children, its flag and the exception, if any,    *)
(* that left update() early (the flag is then never cleared).              *)
(***************************************************************************)
\* lines 148-150, res being what _realign did
Realigned(res) ==
    [children |-> res.children, iterations |-> res.iterations,
     raised |-> res.raised, ran |-> TRUE,
     need_realign |-> (res.raised # "none")]

\* lines 148-150
LayoutUpdate(stack, children, need_realign) ==
    IF need_realign
    THEN CHOOSE out \in
             {Realigned(res) : res \in {Stack_realign(stack, children)}} :
             TRUE
    ELSE [children |-> children, iterations |-> 0, raised |-> "none",
          ran |-> FALSE, need_realign |-> FALSE]

\* widget.py lines 299-313: show() and hide() set the flag and ask the
\* parent layout to realign
SetVisible(children, i, v) == [children EXCEPT ![i].is_visible = v]

\* layout.py lines 189-201 and 217-229: add_widget and add_layout append the
\* child, whatever the list holds already
add_widget(children, widget) == Append(children, widget)

\* layout.py lines 203-215 and 231-243: remove_widget and remove_layout of
\* the child at index i of the list
remove_widget(children, i) ==
    [k \in 1..(Len(children) - 1) |->
        IF k < i THEN children[k] ELSE children[k + 1]]

\* widget.py lines 114-120: the setter of size_behavior
SetSizeBehavior(children, i, value) ==
    [children EXCEPT ![i].size_behavior = value]

(***************************************************************************)
(* layouts/stack.py: Stack.update of a stack that holds stacks.  A child   *)
(* stack is the record of a box and of a stack together, with its own list *)
(* children (of widgets) and its realign flag need_realign.  Layout and    *)
(* Stack define no is_visible: a child stack has the field only if the     *)
(* application has set the attribute on the object.                        *)
(***************************************************************************)
\* isinstance(child, Stack)
IsStack(child) == "direction" \in DOMAIN child

\* hasattr(child, "is_visible")
HasIsVisible(child) == "is_visible" \in DOMAIN child

\* Stack(direction) followed by add_widget of each widget: the constructor
\* defaults of layout.py lines 48-60 and stack.py lines 34-67, and the
\* request of add_widget
ChildStack(direction, widgets) ==
    [preferred_size |-> <<R(10), R(10)>>, current_size |-> <<R(10), R(10)>>,
     minimum_size |-> <<R(0), R(0)>>, maximum_size |-> <<R(0), R(0)>>,
     size_behavior |-> <<FLEX, FLEX>>, relative_position |-> <<R(0), R(0)>>,
     direction |-> direction, main_alignment |-> CENTER,
     cross_alignment |-> CENTER, distribution |-> SPACE_AROUND,
     children |-> widgets, need_realign |-> Len(widgets) > 0]

\* child.is_visible = v, set by the application
SetIsVisible(child, v) ==
    [f \in DOMAIN child \cup {"is_visible"} |->
        IF f = "is_visible" THEN v ELSE child[f]]

RECURSIVE RatMaxOf(_)
RatMaxOf(s) ==
    IF Len(s) = 1 THEN s[1] ELSE RatMax(s[1], RatMaxOf(Tail(s)))

\* a slip-free reading of the comment at lines 119-120: the hidden
\* children of the child stack are left out
SmallestFitVisible(child, main_axis) ==
    [k \in 1..Len(VisibleChildren(child.children)) |->
        Get(child.children[VisibleChildren(child.children)[k]]
                .preferred_size, main_axis)]

\* line 121: the preferred main-axis sizes of all the children of the child
\* stack
SmallestFit(child, main_axis) ==
    [k \in 1..Len(child.children) |->
        Get(child.children[k].preferred_size, main_axis)]

\* lines 121-130 for one visible child stack with the given smallest_fit:
\* max() of an empty list raises ValueError
Fitted(stack, child, smallest_fit) ==
    IF stack.direction # child.direction /\ smallest_fit = <<>>
    THEN [child |-> child, raised |-> "ValueError"]
    ELSE LET main_axis == stack.direction
             cross_axis == 1 - main_axis
             layout_preferred_size ==
                 IF stack.direction = child.direction
                 THEN RatSum(smallest_fit)
                 ELSE RatMaxOf(smallest_fit)
         IN  [child |->
                 [child EXCEPT
                    !.preferred_size =
                        Set(Set(@, main_axis, layout_preferred_size),
                            cross_axis, Get(stack.current_size, cross_axis)),
                    !.minimum_size = Set(@, main_axis, layout_preferred_size)],
              raised |-> "none"]

\* lines 117-131: the loop over the visible children from the k-th on
RECURSIVE PrePass(_, _, _, _)
PrePass(stack, children, visible, k) ==
    IF k > Len(visible) THEN [children |-> children, raised |-> "none"]
    ELSE IF ~IsStack(children[visible[k]])
    THEN PrePass(stack, children, visible, k + 1)
    ELSE LET fit == Fitted(stack, children[visible[k]],
                           SmallestFit(children[visible[k]], stack.direction))
         IN  IF fit.raised # "none"
             THEN [children |-> children, raised |-> fit.raised]
             ELSE PrePass(stack,
                          [children EXCEPT ![visible[k]] = fit.child],
                          visible, k + 1)

\* layout.py lines 145-146 for a child stack whose children are widgets:
\* child.realign(); child.update(events).  The child's own Stack.update
\* finds no layouts among its children and runs _realign with the child's
\* current size
ChildUpdate(child) ==
    CHOOSE out \in
        {[child |-> [child EXCEPT !.children = res.children,
                                  !.need_realign = (res.raised # "none")],
          raised |-> res.raised] :
            res \in {Stack_realign(child, child.children)}} : TRUE

\* layout.py lines 143-146: the loop over the children from the k-th on
RECURSIVE ChildUpdates(_, _)
ChildUpdates(children, k) ==
    IF k > Len(children) THEN [children |-> children, raised |-> "none"]
    ELSE IF ~IsStack(children[k]) THEN ChildUpdates(children, k + 1)
    ELSE LET res == ChildUpdate(children[k])
         IN  IF res.raised # "none"
             THEN [children |->
                      [children EXCEPT ![k] =
                          [children[k] EXCEPT !.need_realign = TRUE]],
                   raised |-> res.raised]
             ELSE ChildUpdates([children EXCEPT ![k] = res.child], k + 1)

\* layout.py lines 142-155 after the pre-pass
UpdateAfterPrePass(stack, pre, need_realign) ==
    IF pre.raised # "none"
    THEN [children |-> pre.children, need_realign |-> need_realign,
          raised |-> pre.raised, iterations |-> 0, ran |-> FALSE]
    ELSE LET down == ChildUpdates(pre.children, 1)
         IN  IF down.raised # "none"
             THEN [children |-> down.children, need_realign |-> need_realign,
                   raised |-> down.raised, iterations |-> 0, ran |-> FALSE]
             ELSE LayoutUpdate(stack, down.children, need_realign)

\* stack.py lines 110-133: Stack.update(events) of a stack whose child
\* stacks hold widgets only.  Line 111 reads is_visible of every child and
\* raises AttributeError for a child that has none
Stack_update(stack, children, need_realign) ==
    IF \E i \in 1..Len(children) : ~HasIsVisible(children[i])
    THEN [children |-> children, need_realign |-> need_realign,
          raised |-> "AttributeError", iterations |-> 0, ran |-> FALSE]
    ELSE CHOOSE out \in
             {UpdateAfterPrePass(stack, pre, need_realign) :
                 pre \in {PrePass(stack, children,
                                  VisibleChildren(children), 1)}} : TRUE

(***************************************************************************)
(* layouts/layout.py: the child lists of several layouts.  own is the      *)
(* record of the _children list of every layout that takes children, the   *)
(* parent_layout of every object, the realign flag of every layout and the *)
(* exception, if any, of the call.                                         *)
(***************************************************************************)
NoParent == "None"

\* the layouts that take children, a layout that is only ever a child, and
\* the widgets
OwParents == {"left", "right"}

OwLayouts == OwParents \cup {"inner"}

OwWidgets == {"button", "label"}

Contains(s, x) == \E k \in 1..Len(s) : s[k] = x

\* list.remove(x): the first entry equal to x goes
ListRemove(s, x) ==
    remove_widget(s, CHOOSE k \in 1..Len(s) :
                         s[k] = x /\ \A j \in 1..(k - 1) : s[j] # x)

\* lines 172-174
Layout_realign(own, layout) ==
    [own EXCEPT !.need_realign[layout] = TRUE]

\* lines 189-201 (add_widget) and 217-229 (add_layout)
AddChild(own, layout, child) ==
    Layout_realign(
        [own EXCEPT !.children[layout] = add_widget(@, child),
                    !.parent[child] = layout,
                    !.raised = "none"],
        layout)

\* a slip: removing an object that is not in the list is a silent no-op on
\* the list
RemoveChildSilent(own, layout, child) ==
    Layout_realign(
        [own EXCEPT !.children[layout] =
                        SelectSeq(@, LAMBDA c : c # child),
                    !.parent[child] = NoParent,
                    !.raised = "none"],
        layout)

\* lines 203-215 (remove_widget) and 231-243 (remove_layout): list.remove
\* raises ValueError before anything is assigned
RemoveChild(own, layout, child) ==
    IF ~Contains(own.children[layout], child)
    THEN [own EXCEPT !.raised = "ValueError"]
    ELSE Layout_realign(
             [own EXCEPT !.children[layout] = ListRemove(@, child),
                         !.parent[child] = NoParent,
                         !.raised = "none"],
             layout)

\* lines 142-155 for a layout whose child layouts have no children of their
\* own: every child layout is asked to realign and updated, which clears
\* its flag, then the layout's own flag is cleared, then the child widgets
\* are updated; the update of a visible widget reads its position through
\* parent_layout (widget.py lines 87 and 172) and raises AttributeError if
\* that is None
UpdateTree(own, layout) ==
    [own EXCEPT !.need_realign =
                    [l \in DOMAIN own.need_realign |->
                        IF l = layout \/ Contains(own.children[layout], l)
                        THEN FALSE ELSE own.need_realign[l]],
                !.raised =
                    IF \E w \in OwWidgets :
                           /\ Contains(own.children[layout], w)
                           /\ own.parent[w] = NoParent
                    THEN "AttributeError" ELSE "none"]

\* a slip: the layout realigns itself before its child layouts
RECURSIVE Layout_update_top_down(_, _)
Layout_update_top_down(pass, layout) ==
    LET kids == pass.children[layout]
        mine == IF pass.need_realign[layout]
                THEN [pass EXCEPT
                        !.log = Append(@, [call |-> "_realign",
                                           of |-> layout]),
                        !.need_realign[layout] = FALSE]
                ELSE pass
        Down[k \in 0..Len(kids)] ==
            IF k = 0 THEN mine
            ELSE IF kids[k] \in OwLayouts
            THEN Layout_update_top_down(Layout_realign(Down[k - 1], kids[k]),
                                        kids[k])
            ELSE Down[k - 1]
        Widgets[k \in 0..Len(kids)] ==
            IF k = 0 THEN Down[Len(kids)]
            ELSE IF kids[k] \in OwWidgets
            THEN [Widgets[k - 1] EXCEPT
                    !.log = Append(@, [call |-> "update", of |-> kids[k]])]
            ELSE Widgets[k - 1]
    IN  Widgets[Len(kids)]

\* lines 142-155 for a tree of layouts of any depth.  pass holds the
\* _children list and the realign flag of every layout, and the log of the
\* pass so far: the _realign calls of layouts and the update calls of
\* widgets, in order.  Every child layout is asked to realign and updated
\* (lines 143-146), then the layout runs its _realign if its flag is set
\* (lines 149-151), then its child widgets are updated (lines 153-155).
RECURSIVE Layout_update(_, _)
Layout_update(pass, layout) ==
    LET kids == pass.children[layout]
        Down[k \in 0..Len(kids)] ==
            IF k = 0 THEN pass
            ELSE IF kids[k] \in OwLayouts
            THEN Layout_update(Layout_realign(Down[k - 1], kids[k]), kids[k])
            ELSE Down[k - 1]
        mine == IF Down[Len(kids)].need_realign[layout]
                THEN [Down[Len(kids)] EXCEPT
                        !.log = Append(@, [call |-> "_realign",
                                           of |-> layout]),
                        !.need_realign[layout] = FALSE]
                ELSE Down[Len(kids)]
        Widgets[k \in 0..Len(kids)] ==
            IF k = 0 THEN mine
            ELSE IF kids[k] \in OwWidgets
            THEN [Widgets[k - 1] EXCEPT
                    !.log = Append(@, [call |-> "update", of |-> kids[k]])]
            ELSE Widgets[k - 1]
    IN  Widgets[Len(kids)]

\* the layouts above an object of a tree
RECURSIVE Ancestors(_, _)
Ancestors(parent, x) ==
    IF parent[x] = NoParent THEN {}
    ELSE {parent[x]} \cup Ancestors(parent, parent[x])

(***************************************************************************)
(* widgets/widget.py: the mouse and focus logic of Widget.  r is the       *)
(* record of the widget's fields (w), of the event methods the call has    *)
(* fired so far, in order (fired), and of the left-button-down events the  *)
(* widget has processed (downs), each with its time and the event methods  *)
(* it fired.  Times are milliseconds of perf_counter().                    *)
(***************************************************************************)
\* line 79
DoubleClickDuration == 500

\* how many left-button-down events the record keeps
KeptDowns == 3

\* lines 64-80
NewWidget ==
    [is_visible |-> TRUE, _hovered |-> FALSE,
     _pressed |-> <<FALSE, FALSE, FALSE>>, _last_pressed |-> 0,
     on_focus |-> FALSE]

Fire(r, name) == [r EXCEPT !.fired = Append(@, name)]

\* a slip: focus_event fires on every call
Widget_focus_always(r) ==
    Fire([r EXCEPT !.w.on_focus = TRUE], "focus_event")

\* lines 281-288
Widget_focus(r) ==
    IF ~r.w.on_focus
    THEN Fire([r EXCEPT !.w.on_focus = TRUE], "focus_event")
    ELSE [r EXCEPT !.w.on_focus = TRUE]

\* lines 290-297
Widget_unfocus(r) ==
    IF r.w.on_focus
    THEN Fire([r EXCEPT !.w.on_focus = FALSE], "unfocus_event")
    ELSE [r EXCEPT !.w.on_focus = FALSE]

\* lines 174-189
Widget_hover(r, inside) ==
    IF inside
    THEN [(IF ~r.w._hovered THEN Fire(r, "mouse_enter_event") ELSE r)
             EXCEPT !.w._hovered = TRUE]
    ELSE [(IF r.w._hovered THEN Fire(r, "mouse_leave_event") ELSE r)
             EXCEPT !.w._hovered = FALSE]

\* lines 193-199: the double-click test of a left-button-down event; the
\* timestamp reset of line 196 is overwritten by line 199
DoubleClick(r, event, now) ==
    IF event.button = 1
    THEN [(IF now - r.w._last_pressed < DoubleClickDuration
           THEN Fire([r EXCEPT !.w._last_pressed = 0],
                     "mouse_double_click_event")
           ELSE r)
             EXCEPT !.w._last_pressed = now]
    ELSE r

\* lines 201-211
Press(r, event) ==
    IF r.w._hovered
    THEN Widget_focus(Fire([r EXCEPT !.w._pressed[event.button] = TRUE],
                           "mouse_press_event"))
    ELSE Widget_unfocus(r)

\* lines 213-217
Release(r, event) ==
    IF r.w._pressed[event.button]
    THEN Fire([r EXCEPT !.w._pressed[event.button] = FALSE],
              "mouse_release_event")
    ELSE r

LastOf(s, n) == IF Len(s) <= n THEN s ELSE SubSeq(s, Len(s) - n + 1, Len(s))

ClickEvents == {"mouse_double_click_event", "mouse_press_event"}

\* the record of a processed left-button-down event: its time and the
\* press and double-click events the call has fired since the event began
NoteDown(before, after, event, now) ==
    IF event.button = 1
    THEN [after EXCEPT !.downs =
             LastOf(Append(@, [time |-> now,
                               fired |-> SelectSeq(
                                   SubSeq(after.fired, Len(before.fired) + 1,
                                          Len(after.fired)),
                                   LAMBDA e : e \in ClickEvents)]),
                    KeptDowns)]
    ELSE after

\* lines 192-228: one event of the loop
Widget_on_event(r, event, now) ==
    IF event.type = "MOUSEBUTTONDOWN"
    THEN NoteDown(r, Press(DoubleClick(r, event, now), event), event, now)
    ELSE IF event.type = "MOUSEBUTTONUP"
    THEN Release(r, event)
    ELSE r

RECURSIVE Widget_event_loop(_, _, _, _)
Widget_event_loop(r, events, k, now) ==
    IF k > Len(events) THEN r
    ELSE Widget_event_loop(Widget_on_event(r, events[k], now), events,
                           k + 1, now)

\* lines 155-228: Widget.update at time now with the pointer inside the
\* widget or not
Widget_update(r, inside, events, now) ==
    IF ~r.w.is_visible THEN r
    ELSE Widget_event_loop(Widget_hover(r, inside), events, 1, now)

(***************************************************************************)
(* src/textinput.py and src/widget.py: the single line TextInput.  The     *)
(* widget is the record of its fields; a string is a sequence of one       *)
(* character strings.  A font is known by its name and renders a text as   *)
(* wide as its characters together; the painting is not part of the       *)
(* model.                                                                  *)
(***************************************************************************)
\* Python's normalisation of a slice bound i for a sequence of length n
PyIndex(n, i) ==
    IF i < 0 THEN (IF n + i < 0 THEN 0 ELSE n + i)
    ELSE (IF i > n THEN n ELSE i)

\* s[:hi]
SliceTo(s, hi) == SubSeq(s, 1, PyIndex(Len(s), hi))

\* s[lo:]
SliceFrom(s, lo) == SubSeq(s, PyIndex(Len(s), lo) + 1, Len(s))

\* s[:-1]
DropLast(s) == SliceTo(s, -1)

\* str.rstrip(): trailing whitespace removed
RECURSIVE RStrip(_)
RStrip(s) ==
    IF s # <<>> /\ s[Len(s)] \in {" ", "\n"}
    THEN RStrip(SubSeq(s, 1, Len(s) - 1)) ELSE s

\* str.rfind(" "): the 0-based index of the last space, or -1
RFindSpace(s) ==
    IF \E i \in 1..Len(s) : s[i] = " "
    THEN (CHOOSE i \in 1..Len(s) :
              s[i] = " " /\ \A j \in (i + 1)..Len(s) : s[j] # " ") - 1
    ELSE -1

\* str.find(" "): the 0-based index of the first space, or -1
FindSpace(s) ==
    IF \E i \in 1..Len(s) : s[i] = " "
    THEN (CHOOSE i \in 1..Len(s) :
              s[i] = " " /\ \A j \in 1..(i - 1) : s[j] # " ") - 1
    ELSE -1

\* str.replace("\n", "")
RemoveNewlines(s) == SelectSeq(s, LAMBDA ch : ch # "\n")

\* the fonts of the model: every character as wide as every other, a
\* space narrower than a letter, and a space of no width
Fonts == {"fixed", "proportional", "thin"}

\* lines 87-90: the width of one rendered character of the font
FontWidth(font, ch) ==
    IF font = "fixed" \/ ch # " " THEN 10
    ELSE IF font = "proportional" THEN 4 ELSE 0

\* the width of the rendered string s
RECURSIVE TextWidth(_, _)
TextWidth(font, s) ==
    IF s = <<>> THEN 0 ELSE FontWidth(font, Head(s)) + TextWidth(font, Tail(s))

\* TextInput.__init__, line 29: the default padding
Padding == 4

\* TextInput.__init__, line 26: the default width
PreferredWidth == 130

\* lines 82-85: the width of text[:index]
PartialTextWidth(w, index) ==
    IF Len(w.text) = 0 THEN 0 ELSE TextWidth(w.font, SliceTo(w.text, index))

\* lines 98-110: the loop of _coords_to_text_index from index i on, c being
\* coord + _scroll; halves are avoided by doubling both sides
RECURSIVE CoordsLoop(_, _, _)
CoordsLoop(w, c, i) ==
    IF i >= Len(w.text)
    THEN IF PartialTextWidth(w, Len(w.text) - 1) + Padding < c
         THEN Len(w.text) ELSE -1
    ELSE LET t0 == PartialTextWidth(w, i) + Padding
             chr0 == FontWidth(w.font, w.text[i + 1]) + Padding
             t1 == PartialTextWidth(w, i + 1) + Padding
         IN  IF 2 * t0 < 2 * c + chr0 /\ 2 * c + chr0 < 2 * t1
             THEN i ELSE CoordsLoop(w, c, i + 1)

\* lines 92-110
coords_to_text_index(w, coord) ==
    IF Len(w.text) = 0 THEN -1 ELSE CoordsLoop(w, coord + w._scroll, 0)

\* lines 116-123
get_first_non_space(string) ==
    LET fi == FindSpace(string)
    IN  IF \E i \in (fi + 1)..(Len(string) - 1) : string[i + 1] # " "
        THEN CHOOSE i \in (fi + 1)..(Len(string) - 1) :
                 /\ string[i + 1] # " "
                 /\ \A j \in (fi + 1)..(i - 1) : string[j + 1] = " "
        ELSE -1

\* TextInput.__init__ and Widget.__init__
NewTextInput ==
    [text |-> <<>>, cursor_pos |-> 0,
     _sel_on |-> FALSE, _ssel_on |-> FALSE, _sel_done |-> FALSE,
     _sel_start |-> -1, _sel_end |-> -1, _scroll |-> 0,
     font |-> "fixed", width |-> PreferredWidth,
     on_focus |-> FALSE, _hovered |-> FALSE, _pressed |-> FALSE,
     _cursor_blink |-> FALSE, _cursor_blink_age |-> 0]

\* line 53
cursor_blink_duration == 500

\* lines 112-114; _cursor_blink_age is the time in milliseconds since
\* _cursor_blink_last, and an update takes no time
reset_cursor_blink(w) ==
    [w EXCEPT !._cursor_blink = FALSE, !._cursor_blink_age = 0]

\* lines 128-133: the blink at the begin of an update that comes elapsed
\* milliseconds after the one before
BlinkTick(w, elapsed) ==
    IF w._cursor_blink_age + elapsed > cursor_blink_duration
    THEN [w EXCEPT !._cursor_blink = ~w._cursor_blink,
                   !._cursor_blink_age = 0]
    ELSE [w EXCEPT !._cursor_blink_age = w._cursor_blink_age + elapsed]

\* lines 463-470
unselect(w) ==
    [w EXCEPT !._sel_on = FALSE, !._ssel_on = FALSE, !._sel_done = FALSE,
              !._sel_start = -1, !._sel_end = -1]

\* lines 140-145: the selection markers in increasing order
SelLow(w) == IF w._sel_start > w._sel_end THEN w._sel_end ELSE w._sel_start

SelHigh(w) == IF w._sel_start > w._sel_end THEN w._sel_start ELSE w._sel_end

\* lines 147-156: the text with the selection replaced by t
\* (sel_start += 1; text[:sel_start][:-1] + t + text[sel_end:])
ReplaceSelection(w, t) ==
    DropLast(SliceTo(w.text, SelLow(w) + 1)) \o t \o SliceFrom(w.text, SelHigh(w))

\* lines 159, 220, 235, 247, 286, 334
ClampLow(c) == IF c < 0 THEN 0 ELSE c

\* lines 173-179: t inserted at the cursor
InsertAtCursor(w, t) ==
    IF w.cursor_pos = Len(w.text) THEN w.text \o t
    ELSE SliceTo(w.text, w.cursor_pos) \o t \o SliceFrom(w.text, w.cursor_pos)

\* the x coordinate of the cursor in the text
CursorX(w) == PartialTextWidth(w, w.cursor_pos)

\* line 184: the width of the visible part of the text
InputWidth(w) == w.width - Padding * 2

\* lines 183-187, 308-312, 375-379, 411-415: the text is scrolled on until
\* the cursor is in the visible part
ScrollForward(w) ==
    IF CursorX(w) - w._scroll > InputWidth(w)
    THEN [w EXCEPT !._scroll =
                       w._scroll + (CursorX(w) - w._scroll - InputWidth(w))]
    ELSE w

\* lines 340-343, 399-402, 495-498: the text is scrolled back to the cursor
ScrollBack(w) ==
    IF CursorX(w) < w._scroll
    THEN [w EXCEPT !._scroll = w._scroll - (w._scroll - CursorX(w))]
    ELSE w

\* lines 165-168, 292-295: the scroll follows the cursor from old_cursor_x
\* at the end of the selection that e has replaced
ScrollAfterReplace(e, old_cursor_x) ==
    [e EXCEPT !._scroll =
                  ClampLow(IF e._scroll > 0
                           THEN e._scroll - (old_cursor_x - CursorX(e))
                           ELSE e._scroll)]

\* the scroll after a deletion without the test of line 254
ScrollAfterDeleteUnclamped(e, old_cursor_x) ==
    IF e._scroll > 0
    THEN [e EXCEPT !._scroll = e._scroll - (old_cursor_x - CursorX(e))]
    ELSE e

\* lines 251-254: the scroll follows the cursor from old_cursor_x after the
\* deletion that gave e
ScrollAfterDelete(e, old_cursor_x) ==
    IF e._scroll > 0
    THEN [e EXCEPT !._scroll =
                       ClampLow(e._scroll - (old_cursor_x - CursorX(e)))]
    ELSE e

\* lines 138-189: a TEXTINPUT event carrying t
OnTextInput(w, t) ==
    IF w._sel_done
    THEN ScrollAfterReplace(
             unselect([w EXCEPT !.text = ReplaceSelection(w, t),
                                !.cursor_pos = ClampLow(SelLow(w) + 1)]),
             PartialTextWidth(w, SelHigh(w)))
    ELSE IF ~w._sel_on
    THEN ScrollForward([reset_cursor_blink(w) EXCEPT
                            !.text = InsertAtCursor(w, t),
                            !.cursor_pos = w.cursor_pos + 1])
    ELSE w

\* lines 196-254: Backspace
OnBackspace(w, mod) ==
    IF Len(w.text) = 0 THEN w
    ELSE IF w._sel_done
    THEN ScrollAfterDelete(
             unselect([w EXCEPT !.text = ReplaceSelection(w, <<>>),
                                !.cursor_pos = ClampLow(SelLow(w))]),
             PartialTextWidth(w, SelHigh(w)))
    ELSE IF mod = "KMOD_LCTRL"
    THEN LET first_space ==
                 RFindSpace(RStrip(SliceTo(w.text, w.cursor_pos))) + 1
         IN  ScrollAfterDelete(
                 [w EXCEPT !.text = SliceTo(w.text, first_space)
                                       \o SliceFrom(w.text, w.cursor_pos),
                           !.cursor_pos = ClampLow(first_space)],
                 CursorX(w))
    ELSE ScrollAfterDelete(
             [w EXCEPT !.text = DropLast(SliceTo(w.text, w.cursor_pos))
                                    \o SliceFrom(w.text, w.cursor_pos),
                       !.cursor_pos = ClampLow(w.cursor_pos - 1)],
             CursorX(w))

\* lines 266-312: Ctrl+V with the non-empty clipboard text
OnPaste(w, clipboard) ==
    IF w._sel_done
    THEN ScrollAfterReplace(
             unselect([w EXCEPT
                         !.text = ReplaceSelection(w, clipboard),
                         !.cursor_pos =
                             ClampLow(SelLow(w) + 1 + Len(clipboard) - 1)]),
             PartialTextWidth(w, SelHigh(w)))
    ELSE ScrollForward([w EXCEPT !.text = InsertAtCursor(w, clipboard),
                                 !.cursor_pos = w.cursor_pos + Len(clipboard)])

\* Shift moves the anchor to the cursor at every press
ShiftAnchorAlways(w, mod) ==
    IF mod = "KMOD_LSHIFT"
    THEN [w EXCEPT !._ssel_on = TRUE, !._sel_start = w.cursor_pos]
    ELSE w

\* lines 322-325 and 353-356: Shift starts a selection at the cursor
ShiftAnchor(w, mod) ==
    IF mod = "KMOD_LSHIFT" /\ ~w._ssel_on
    THEN [w EXCEPT !._ssel_on = TRUE, !._sel_start = w.cursor_pos]
    ELSE w

\* lines 336-338 and 371-373: Shift moves the selection end to the cursor
ShiftExtend(w, mod) ==
    IF mod = "KMOD_LSHIFT" /\ w._ssel_on
    THEN [w EXCEPT !._sel_end = w.cursor_pos]
    ELSE w

\* Left with the rstrip() of line 328 left out
OnLeftNoStrip(w, mod) ==
    IF w._sel_done THEN unselect(w)
    ELSE LET a == ShiftAnchor(w, mod)
             c == IF mod = "KMOD_LCTRL"
                  THEN RFindSpace(SliceTo(a.text, a.cursor_pos)) + 1
                  ELSE a.cursor_pos - 1
         IN  ScrollBack(ShiftExtend([a EXCEPT !.cursor_pos = ClampLow(c)],
                                    mod))

\* lines 315-343: Left
OnLeft(w, mod) ==
    IF w._sel_done THEN unselect(w)
    ELSE LET a == ShiftAnchor(w, mod)
             c == IF mod = "KMOD_LCTRL"
                  THEN RFindSpace(RStrip(SliceTo(a.text, a.cursor_pos))) + 1
                  ELSE a.cursor_pos - 1
         IN  ScrollBack(ShiftExtend([a EXCEPT !.cursor_pos = ClampLow(c)],
                                    mod))

\* lines 346-379: Right
OnRight(w, mod) ==
    IF w._sel_done THEN unselect(w)
    ELSE LET a == ShiftAnchor(w, mod)
             c == IF mod = "KMOD_LCTRL"
                  THEN a.cursor_pos
                       + get_first_non_space(
                             SliceFrom(a.text, a.cursor_pos) \o <<" ", ".">>)
                  ELSE a.cursor_pos + 1
             c2 == IF c > Len(a.text) THEN c - 1 ELSE c
         IN  ScrollForward(ShiftExtend([a EXCEPT !.cursor_pos = c2], mod))

\* s[lo:hi]
Slice(s, lo, hi) ==
    SubSeq(s, PyIndex(Len(s), lo) + 1, PyIndex(Len(s), hi))

\* lines 472-484
get_selection(w) ==
    IF ~w._sel_done THEN <<>> ELSE Slice(w.text, SelLow(w), SelHigh(w))

\* What one event, or the loop over the events, did: the widget after it,
\* whether update() returned at line 264, the texts it passed to
\* pygame.scrap.put_text() and the number of times it emitted enter_pressed.
Done(w) == [w |-> w, returned |-> FALSE, put |-> <<>>, emitted |-> 0]

\* lines 191-417: a KEYDOWN event; clipboard is what pygame.scrap.get_text()
\* returns
OnKeyDown(w, key, mod, clipboard) ==
    IF w._sel_on /\ ~w._sel_done THEN Done(w)
    ELSE IF key = "K_BACKSPACE"
    THEN Done(OnBackspace(reset_cursor_blink(w), mod))
    ELSE IF key = "K_c" /\ mod = "KMOD_LCTRL"
    THEN [Done(w) EXCEPT !.put = <<get_selection(w)>>]
    ELSE IF key = "K_v" /\ mod = "KMOD_LCTRL"
    THEN IF Len(RemoveNewlines(clipboard)) = 0
         THEN [Done(w) EXCEPT !.returned = TRUE]
         ELSE Done(OnPaste(w, RemoveNewlines(clipboard)))
    ELSE IF key = "K_LEFT"
    THEN Done(OnLeft(reset_cursor_blink(w), mod))
    ELSE IF key = "K_RIGHT"
    THEN Done(OnRight(reset_cursor_blink(w), mod))
    ELSE IF key = "K_a" /\ mod = "KMOD_LCTRL"
    THEN Done([w EXCEPT !._sel_start = 0, !._sel_end = Len(w.text),
                        !._sel_on = TRUE, !._sel_done = TRUE])
    ELSE IF key = "K_RETURN"
    THEN [Done(unselect(w)) EXCEPT !.emitted = 1]
    ELSE IF key = "K_HOME" /\ Len(w.text) > 0
    THEN Done(ScrollBack([unselect(reset_cursor_blink(w)) EXCEPT
                              !.cursor_pos = 0]))
    ELSE IF key = "K_END" /\ Len(w.text) > 0
    THEN Done(ScrollForward([unselect(reset_cursor_blink(w)) EXCEPT
                                 !.cursor_pos = Len(w.text)]))
    ELSE Done(w)

\* lines 419-422: a KEYUP event
OnKeyUp(w, key) ==
    IF key = "K_LSHIFT" /\ w._ssel_on
    THEN [w EXCEPT !._sel_done = TRUE] ELSE w

\* lines 424-434: MOUSEBUTTONDOWN of button 1 at x, relative to the widget
OnMouseDown(w, x) ==
    IF w._hovered /\ coords_to_text_index(w, x) # -1
    THEN [w EXCEPT !.cursor_pos = coords_to_text_index(w, x),
                   !._sel_on = TRUE, !._sel_done = FALSE,
                   !._sel_start = coords_to_text_index(w, x)]
    ELSE w

\* lines 436-442: MOUSEBUTTONUP of button 1
OnMouseUp(w) ==
    IF w._sel_start = w._sel_end THEN unselect(w)
    ELSE IF w._sel_on THEN [w EXCEPT !._sel_done = TRUE]
    ELSE w

\* lines 138-442: one event of the loop
OnEvent(w, event) ==
    IF event.type = "TEXTINPUT"
    THEN Done(OnTextInput(w, event.text))
    ELSE IF event.type = "KEYDOWN"
    THEN OnKeyDown(w, event.key, event.mod, event.clipboard)
    ELSE IF event.type = "KEYUP"
    THEN Done(OnKeyUp(w, event.key))
    ELSE IF event.type = "MOUSEBUTTONDOWN"
    THEN Done(OnMouseDown(w, event.x))
    ELSE Done(OnMouseUp(w))

\* lines 137-442: the loop over the events from the k-th on
RECURSIVE EventLoop(_, _, _)
EventLoop(w, events, k) ==
    IF k > Len(events) THEN Done(w)
    ELSE LET r == OnEvent(w, events[k])
         IN  IF r.returned THEN r
             ELSE LET rest == EventLoop(r.w, events, k + 1)
                  IN  [rest EXCEPT !.put = r.put \o rest.put,
                                   !.emitted = r.emitted + rest.emitted]

\* lines 444-453: the selection follows the pointer while the button is held
TrackPointer(w, x) ==
    IF w._sel_on /\ ~w._sel_done /\ coords_to_text_index(w, x) # -1
    THEN [w EXCEPT !.cursor_pos = coords_to_text_index(w, x),
                   !._sel_end = coords_to_text_index(w, x)]
    ELSE w

\* widget.py lines 140-154 with TextInput.focus_event / unfocus_event
\* (lines 597-603)
focus(w) ==
    IF w.on_focus THEN w ELSE reset_cursor_blink([w EXCEPT !.on_focus = TRUE])

unfocus(w) ==
    IF w.on_focus THEN unselect([w EXCEPT !.on_focus = FALSE]) ELSE w

\* widget.py lines 96-113: one event of Widget.update's loop (the double
\* click test of lines 97-99 only calls the empty mouse_double_click_event)
WidgetOnEvent(w, event) ==
    IF event.type = "MOUSEBUTTONDOWN"
    THEN IF w._hovered THEN [w EXCEPT !._pressed = TRUE] ELSE unfocus(w)
    ELSE IF event.type = "MOUSEBUTTONUP" /\ w._pressed
    THEN focus([w EXCEPT !._pressed = FALSE])
    ELSE w

RECURSIVE WidgetEventLoop(_, _, _)
WidgetEventLoop(w, events, k) ==
    IF k > Len(events) THEN w
    ELSE WidgetEventLoop(WidgetOnEvent(w, events[k]), events, k + 1)

\* widget.py lines 71-113: Widget.update with the pointer at the given place
WidgetUpdate(w, pointer, events) ==
    WidgetEventLoop([w EXCEPT !._hovered = pointer.over], events, 1)

\* lines 135-453, after Widget.update
UpdateFocused(w, pointer, events) ==
    IF ~w.on_focus THEN Done(w)
    ELSE CHOOSE out \in
             {IF r.returned THEN r
              ELSE [r EXCEPT !.w = TrackPointer(r.w, pointer.x)] :
                 r \in {EventLoop(w, events, 1)}} : TRUE

\* lines 125-453: TextInput.update(events), elapsed milliseconds after the
\* update before, with what it did to the outside
TextInputTimedCall(w, pointer, events, elapsed) ==
    CHOOSE out \in
        {UpdateFocused(w1, pointer, events) :
            w1 \in {BlinkTick(WidgetUpdate(w, pointer, events), elapsed)}} :
        TRUE

\* TextInput.update(events) right after the update before
TextInputCall(w, pointer, events) == TextInputTimedCall(w, pointer, events, 0)

\* lines 125-453: the widget after TextInput.update(events)
TextInputUpdate(w, pointer, events) == TextInputCall(w, pointer, events).w

\* lines 486-500
clear(w) ==
    ScrollBack([unselect(reset_cursor_blink([w EXCEPT !.text = <<>>])) EXCEPT
                    !.cursor_pos = 0])

(***************************************************************************)
(* src/layouts/verticalstack.py and src/verticalstack.py: the legacy       *)
(* VerticalStack.realign.  The two files differ in how a widget says that  *)
(* it has no maximum height (0 in the first, None in the second), in what  *)
(* a widget at its maximum takes from the growable height, and in whether  *)
(* the share is computed again within a round.  A child is the record of   *)
(* its vertical_behavior and of the heights of its preferred_size,         *)
(* maximum_size and current_size; None is written -1.                      *)
(***************************************************************************)
TOP == "TOP"
BOTTOM == "BOTTOM"
X_CENTER == "X_CENTER"

None == -1

\* lines 58, 83, 93 (lines 56, 75, 85 of src/verticalstack.py)
HasMaximum(variant, child) ==
    IF variant = "layouts" THEN child.maximum > 0 ELSE child.maximum # None

\* lines 49, 66, 79: if h_each < 0: h_each = 0
NotNegative(h) == IF RatLt(h, R(0)) THEN R(0) ELSE h

\* lines 27-37: the preferred heights of the growing children and the
\* current heights of the fixed ones
RECURSIVE h_fixed(_)
h_fixed(children) ==
    IF children = <<>> THEN R(0)
    ELSE RatAdd(IF children[1].vertical_behavior = FIXED
                THEN children[1].current
                ELSE IF children[1].vertical_behavior = GROW
                THEN R(children[1].preferred)
                ELSE R(0),
                h_fixed(Tail(children)))

\* the indices of the GROW children, in order
Growables(children) ==
    LET F[k \in 0..Len(children)] ==
            IF k = 0 THEN <<>>
            ELSE IF children[k].vertical_behavior = GROW
            THEN Append(F[k - 1], k)
            ELSE F[k - 1]
    IN  F[Len(children)]

\* lines 56-71: one round over the growables from the k-th on.  s holds
\* h_growable, h_each, n_growables_, new_growables and the current heights
RECURSIVE Round(_, _, _, _, _)
Round(variant, children, growables, k, s) ==
    IF k > Len(growables) THEN s
    ELSE LET i == growables[k]
             child == children[i]
             new_h == RatAdd(R(child.preferred), s.h_each)
         IN  IF HasMaximum(variant, child) /\ RatLt(R(child.maximum), new_h)
             THEN LET left == IF variant = "layouts"
                              THEN RatSub(s.h_growable,
                                          R(child.maximum - child.preferred))
                              ELSE RatSub(s.h_growable, R(child.maximum))
                      n == s.n_growables_ - 1
                  IN  Round(variant, children, growables, k + 1,
                          [s EXCEPT
                             !.h_growable = left,
                             !.n_growables_ = n,
                             !.h_each =
                                 IF variant = "layouts" /\ n > 0
                                 THEN NotNegative(RatDivInt(left, n))
                                 ELSE @,
                             !.current[i] = R(child.maximum)])
             ELSE Round(variant, children, growables, k + 1,
                      [s EXCEPT !.current[i] = new_h,
                                !.new_growables = Append(@, i)])

\* a slip: one round only, whatever the number of growables
RedistributeOnce(variant, children, growables, s, rounds) ==
    LET t == Round(variant, children, growables, 1,
                   [s EXCEPT !.new_growables = <<>>])
    IN  IF rounds = 0 THEN [s EXCEPT !.new_growables = growables]
        ELSE IF Len(t.new_growables) = 0 THEN t
        ELSE [t EXCEPT !.h_each =
                 NotNegative(RatDivInt(t.h_growable, Len(t.new_growables)))]

\* lines 54-88: the rounds that are left of range(n_growables)
RECURSIVE Redistribute(_, _, _, _, _)
Redistribute(variant, children, growables, s, rounds) ==
    IF rounds = 0 THEN [s EXCEPT !.new_growables = growables]
    ELSE LET t == Round(variant, children, growables, 1,
                        [s EXCEPT !.new_growables = <<>>])
         IN  IF Len(t.new_growables) = 0 THEN t
             ELSE LET u == [t EXCEPT !.h_each =
                               NotNegative(RatDivInt(t.h_growable,
                                                     Len(t.new_growables)))]
                  IN  IF \A k \in 1..Len(u.new_growables) :
                             ~HasMaximum(variant,
                                         children[u.new_growables[k]])
                      THEN u
                      ELSE Redistribute(variant, children, u.new_growables,
                                        u, rounds - 1)

\* lines 91-94: a widget still growing would pass its maximum
Overgrown(variant, children, s) ==
    \E k \in 1..Len(s.new_growables) :
        LET child == children[s.new_growables[k]]
        IN  /\ HasMaximum(variant, child)
            /\ RatLt(R(child.maximum), RatAdd(R(child.preferred), s.h_each))

\* lines 91-97: the heights after the last loop
Grown(children, s) ==
    [i \in 1..Len(children) |->
        IF \E k \in 1..Len(s.new_growables) : s.new_growables[k] = i
        THEN RatAdd(R(children[i].preferred), s.h_each)
        ELSE s.current[i]]

\* lines 99-125: relative_position.y of every child
Place(size, alignment, current, old) ==
    LET n == Len(current)
        space == RatSub(R(size), RatSum(current))
        gap == IF RatLe(space, R(0)) \/ n < 2 THEN R(0)
               ELSE RatDivInt(space, n - 1)
        Before[i \in 1..n] ==
            IF i = 1 THEN R(0) ELSE RatAdd(Before[i - 1], current[i - 1])
        After[i \in 1..n] ==
            IF i = n THEN current[n] ELSE RatAdd(After[i + 1], current[i])
    IN  IF alignment = TOP THEN [i \in 1..n |-> Before[i]]
        ELSE IF alignment = BOTTOM
        THEN [i \in 1..n |-> RatSub(R(size), After[i])]
        ELSE IF alignment = X_CENTER
        THEN [i \in 1..n |-> RatAdd(Before[i], RatMulInt(gap, i - 1))]
        ELSE old

NoRealign == [raised |-> "none", current |-> <<>>, y |-> <<>>,
              new_growables |-> <<>>, h_each |-> R(0), rounds |-> 0]

\* lines 26-125: realign() of a stack of the given height
VerticalStack_realign(variant, size, alignment, children) ==
    LET growables == Growables(children)
        n_growables == Len(growables)
        before == [current |-> [i \in 1..Len(children) |->
                                   children[i].current],
                   y |-> [i \in 1..Len(children) |-> children[i].y]]
        h_growable == RatSub(R(size), h_fixed(children))
        s == Redistribute(variant, children, growables,
                 [h_growable |-> h_growable,
                  h_each |-> NotNegative(RatDivInt(h_growable, n_growables)),
                  n_growables_ |-> n_growables,
                  new_growables |-> growables,
                  current |-> before.current],
                 n_growables)
    IN  IF n_growables = 0
        THEN [NoRealign EXCEPT !.current = before.current, !.y = before.y]
        ELSE IF Overgrown(variant, children, s)
        THEN [raised |-> "Exception", current |-> s.current, y |-> before.y,
              new_growables |-> s.new_growables, h_each |-> s.h_each,
              rounds |-> n_growables]
        ELSE IF alignment = X_CENTER /\ Len(children) = 1
        THEN [raised |-> "ZeroDivisionError",
              current |-> Grown(children, s), y |-> before.y,
              new_growables |-> s.new_growables, h_each |-> s.h_each,
              rounds |-> n_growables]
        ELSE [raised |-> "none", current |-> Grown(children, s),
              y |-> Place(size, alignment, Grown(children, s), before.y),
              new_growables |-> s.new_growables, h_each |-> s.h_each,
              rounds |-> n_growables]

(***************************************************************************)
(* State.                                                                  *)
(*   sv_*  one call of solve_size_constraints: the list it is given, the   *)
(*         available length, the axis, and what the call left behind       *)
(*   st_*  one root Stack and its child widgets: the stack's fields, the   *)
(*         list _children, the realign flag, the iteration count of the    *)
(*         last solve, the exception of the last update, the operation     *)
(*         that acted last, the number of show/hide calls (of mutating     *)
(*         calls, in the specification of the deferred realign) still to   *)
(*         be explored, the number of realign requests since the last      *)
(*         update and the number of times the last call ran _realign       *)
(*   ti    one TextInput widget, the record of its fields; ti_put and      *)
(*         ti_emitted are what the last call did to the outside: the texts *)
(*         it passed to pygame.scrap.put_text() and the number of times it *)
(*         emitted enter_pressed; nav_key is the key event of the last     *)
(*         update in the specification of the keyboard navigation          *)
(*   ow_*  several layouts and the objects added to and removed from them: *)
(*         the _children list of each layout, the parent_layout of each    *)
(*         object, the realign flag of each layout, the exception of the   *)
(*         last call, the last call (with what held of the child before    *)
(*         it) and the number of calls still to be explored                *)
(*   wd_*  one Widget: the record of its fields, the clock, the focus and  *)
(*         unfocus events the last call fired, the last left-button-down   *)
(*         events it processed, the focus or unfocus event it fired last   *)
(*         before that call and the number of frames so far                *)
(*   vs_*  one legacy VerticalStack: which of the two files it is from, its *)
(*         height, its alignment, its children as realign() finds them,    *)
(*         what the call left behind, and whether it has been made         *)
(***************************************************************************)
VARIABLES sv_input, sv_size, sv_axis, sv_widgets, sv_iterations, sv_pc,
          st_stack, st_children, st_need_realign, st_iterations, st_raised,
          st_last, st_toggles, st_pending, st_runs, ti, ti_put, ti_emitted,
          nav_key,
          ow_children, ow_parent, ow_need_realign, ow_raised, ow_last,
          ow_calls,
          wd, wd_now, wd_fired, wd_downs, wd_last_focus, wd_frames,
          vs_variant, vs_size, vs_alignment, vs_children, vs_result, vs_pc

solverVars == <<sv_input, sv_size, sv_axis, sv_widgets, sv_iterations, sv_pc>>

stackVars == <<st_stack, st_children, st_need_realign, st_iterations,
               st_raised, st_last, st_toggles, st_pending, st_runs>>

textVars == <<ti, ti_put, ti_emitted, nav_key>>

ownerVars == <<ow_children, ow_parent, ow_need_realign, ow_raised, ow_last,
               ow_calls>>

clickVars == <<wd, wd_now, wd_fired, wd_downs, wd_last_focus, wd_frames>>

\* the variables of the layout owners and of the widget, which the solver,
\* the stack and the text input leave alone
legacyVars == <<vs_variant, vs_size, vs_alignment, vs_children, vs_result,
                vs_pc>>

otherVars == <<ownerVars, clickVars, legacyVars>>

vars == <<solverVars, stackVars, textVars, ownerVars, clickVars, legacyVars>>

\* the part of the state a specification does not use
SolverIdle ==
    /\ sv_input = <<>>
    /\ sv_size = R(0)
    /\ sv_axis = 0
    /\ sv_widgets = <<>>
    /\ sv_iterations = 0
    /\ sv_pc = "idle"

StackIdle ==
    /\ st_stack = [direction |-> VERTICAL, main_alignment |-> CENTER,
                   cross_alignment |-> CENTER,
                   distribution |-> SPACE_AROUND,
                   current_size |-> <<R(10), R(10)>>]
    /\ st_children = <<>>
    /\ st_need_realign = FALSE
    /\ st_iterations = 0
    /\ st_raised = "none"
    /\ st_last = "idle"
    /\ st_toggles = 0
    /\ st_pending = 0
    /\ st_runs = 0

\* no key has been pressed yet
NoKey == [type |-> "none"]

TextIdle ==
    /\ ti = NewTextInput
    /\ ti_put = <<>>
    /\ ti_emitted = 0
    /\ nav_key = NoKey

NoCall == [op |-> "none", layout |-> NoParent, child |-> NoParent,
           member |-> FALSE, parent |-> NoParent]

OwnerIdle ==
    /\ ow_children = [l \in OwParents |-> <<>>]
    /\ ow_parent = [c \in OwLayouts \cup OwWidgets |-> NoParent]
    /\ ow_need_realign = [l \in OwLayouts |-> FALSE]
    /\ ow_raised = "none"
    /\ ow_last = NoCall
    /\ ow_calls = 0

ClickIdle ==
    /\ wd = NewWidget
    /\ wd_now = 0
    /\ wd_fired = <<>>
    /\ wd_downs = <<>>
    /\ wd_last_focus = "none"
    /\ wd_frames = 0

LegacyIdle ==
    /\ vs_variant = "layouts"
    /\ vs_size = 0
    /\ vs_alignment = TOP
    /\ vs_children = <<>>
    /\ vs_result = NoRealign
    /\ vs_pc = "idle"

OtherIdle == OwnerIdle /\ ClickIdle /\ LegacyIdle

SeqsUpTo(S, n) == UNION {[1..k -> S] : k \in 0..n}

(***************************************************************************)
(* Inputs of the solver specification.  A profile is what one box holds on *)
(* the solved axis: <<behaviour, preferred, minimum, maximum>>; 0 is the   *)
(* default limit.  Limits the solver never reads for a behaviour keep the  *)
(* default, except where a preferred size outside the limits is wanted.    *)
(* The other axis keeps the constructor's defaults.                        *)
(***************************************************************************)
DefaultSize == 10

SolverProfiles ==
    {<<FIXED, 2, 0, 0>>, <<FIXED, 4, 0, 3>>, <<FIXED, 2, 3, 0>>,
     <<GROW, 2, 0, 0>>, <<GROW, 2, 0, 3>>, <<GROW, 4, 0, 5>>,
     <<GROW, 4, 0, 3>>,
     <<SHRINK, 4, 0, 0>>, <<SHRINK, 4, 3, 0>>, <<SHRINK, 2, 1, 0>>,
     <<SHRINK, 2, 3, 0>>,
     <<FLEX, 2, 0, 0>>, <<FLEX, 2, 1, 3>>, <<FLEX, 4, 3, 5>>}

SolverSizes == {1, 6, 9, 14}

\* a box with profile p on the axis and profile q on the other one
ProfileBox(p, q, axis) ==
    Box(Set(<<R(q[2]), R(q[2])>>, axis, R(p[2])),
        Set(<<R(q[3]), R(q[3])>>, axis, R(p[3])),
        Set(<<R(q[4]), R(q[4])>>, axis, R(p[4])),
        Set(<<q[1], q[1]>>, axis, p[1]))

SolverInit ==
    /\ OtherIdle
    /\ sv_axis \in {0, 1}
    /\ sv_input \in SeqsUpTo({ProfileBox(p, <<FIXED, DefaultSize, 0, 0>>,
                                         sv_axis) : p \in SolverProfiles},
                             MaxBoxes)
    /\ sv_size \in {R(v) : v \in SolverSizes}
    /\ sv_widgets = sv_input
    /\ sv_iterations = 0
    /\ sv_pc = "ready"
    /\ StackIdle
    /\ TextIdle

\* one call solve_size_constraints(widgets, size, axis)
Solve ==
    /\ sv_pc = "ready"
    /\ LET res == solve_size_constraints(sv_input, sv_size, sv_axis)
       IN  /\ sv_widgets' = res.widgets
           /\ sv_iterations' = res.iterations
    /\ sv_pc' = "solved"
    /\ UNCHANGED <<sv_input, sv_size, sv_axis, stackVars, textVars,
                   otherVars>>

SolverNext == Solve

SolverSpec == SolverInit /\ [][SolverNext]_vars

(***************************************************************************)
(* The stack specification: a root Stack whose children are widgets, set   *)
(* up by add_widget (which requests a realign), then updated, asked to     *)
(* realign again, and with children hidden and shown.  update() is called  *)
(* with an empty event list.  Three families of set-ups keep the state     *)
(* space small: variety on the main axis, variety on the cross axis, and a *)
(* small one in which children are hidden and shown.                       *)
(***************************************************************************)
MaxCrossBoxes == 2

MaxToggles == 2

StackProfiles ==
    {<<FIXED, 70, 0, 0>>, <<FIXED, 115, 0, 0>>,
     <<GROW, 70, 0, 0>>, <<GROW, 70, 0, 100>>, <<GROW, 115, 0, 100>>,
     <<SHRINK, 115, 80, 0>>, <<FLEX, 115, 80, 150>>}

ToggleProfiles == {<<FIXED, 70, 0, 0>>, <<FLEX, 115, 80, 150>>}

MainLengths == {200, 405}

CrossLengths == {60, 100, 200}

\* the stacks of one direction with the given main and cross alignments and
\* lengths; the distribution is only read under CENTER and keeps the
\* constructor's default elsewhere
Stacks(d, mains, crosses, main_lengths, cross_lengths) ==
    {s \in {[direction |-> d, main_alignment |-> m, cross_alignment |-> c,
             distribution |-> ds,
             current_size |-> Set(<<R(cl), R(cl)>>, d, R(ml))] :
                m \in mains, c \in crosses, ds \in LayoutDistribution,
                ml \in main_lengths, cl \in cross_lengths} :
        s.main_alignment # CENTER => s.distribution = SPACE_AROUND}

\* a stack of the set with up to n children added by add_widget, each of
\* which has requested a realign
StackSetUp(stack_set, boxes, n, toggles) ==
    /\ st_stack \in stack_set
    /\ st_children \in SeqsUpTo(boxes, n)
    /\ st_need_realign = (Len(st_children) > 0)
    /\ st_iterations = 0
    /\ st_raised = "none"
    /\ st_last = "init"
    /\ st_toggles = toggles
    /\ st_pending = Len(st_children)
    /\ st_runs = 0

MainFamily(d) ==
    StackSetUp(Stacks(d, LayoutAlignment, {CENTER}, MainLengths, {100}),
               {ProfileBox(p, <<FIXED, 90, 0, 0>>, d) : p \in StackProfiles},
               MaxBoxes, 0)

CrossFamily(d) ==
    StackSetUp(Stacks(d, {CENTER}, LayoutAlignment, {405}, CrossLengths),
               {ProfileBox(<<FIXED, 70, 0, 0>>, q, d) : q \in StackProfiles},
               MaxCrossBoxes, 0)

ToggleFamily(d) ==
    StackSetUp(Stacks(d, LayoutAlignment, {CENTER},
                      IF d = HORIZONTAL THEN {405} ELSE {100},
                      IF d = HORIZONTAL THEN {100} ELSE {405}),
               {ProfileBox(p, p, d) : p \in ToggleProfiles},
               MaxBoxes, MaxToggles)

StackInit ==
    /\ OtherIdle
    /\ SolverIdle
    /\ TextIdle
    /\ \E d \in StackDirection :
          MainFamily(d) \/ CrossFamily(d) \/ ToggleFamily(d)

\* Layout.update(events) of the root stack; st_last tells a realign that
\* directly follows a realign of the same inputs from a first one
Update ==
    /\ \E res \in {LayoutUpdate(st_stack, st_children, st_need_realign)} :
           /\ st_children' = res.children
           /\ st_need_realign' = res.need_realign
           /\ st_raised' = res.raised
           /\ st_iterations' = IF res.ran THEN res.iterations
                               ELSE st_iterations
           /\ st_last' = IF ~res.ran THEN st_last
                         ELSE IF res.raised # "none" THEN "raised"
                         ELSE IF st_last = "request" THEN "realign_again"
                         ELSE "realign"
           /\ st_runs' = IF res.ran THEN 1 ELSE 0
    /\ st_pending' = 0
    /\ UNCHANGED <<st_stack, st_toggles, solverVars, textVars, otherVars>>

\* Layout.realign(): request a realign (a request while one is pending
\* changes nothing)
RequestRealign ==
    /\ ~st_need_realign
    /\ st_last \in {"realign", "realign_again"}
    /\ st_need_realign' = TRUE
    /\ st_last' = "request"
    /\ st_pending' = st_pending + 1
    /\ st_runs' = 0
    /\ UNCHANGED <<st_stack, st_children, st_iterations, st_raised,
                   st_toggles, solverVars, textVars, otherVars>>

\* Widget.hide() of child i
Hide(i) ==
    /\ st_toggles > 0
    /\ st_children[i].is_visible
    /\ st_children' = SetVisible(st_children, i, FALSE)
    /\ st_need_realign' = TRUE
    /\ st_toggles' = st_toggles - 1
    /\ st_last' = "hide"
    /\ st_pending' = st_pending + 1
    /\ st_runs' = 0
    /\ UNCHANGED <<st_stack, st_iterations, st_raised, solverVars,
                   textVars, otherVars>>

\* Widget.show() of child i
Show(i) ==
    /\ st_toggles > 0
    /\ ~st_children[i].is_visible
    /\ st_children' = SetVisible(st_children, i, TRUE)
    /\ st_need_realign' = TRUE
    /\ st_toggles' = st_toggles - 1
    /\ st_last' = "show"
    /\ st_pending' = st_pending + 1
    /\ st_runs' = 0
    /\ UNCHANGED <<st_stack, st_iterations, st_raised, solverVars,
                   textVars, otherVars>>

StackNext ==
    \/ Update
    \/ RequestRealign
    \/ \E i \in 1..Len(st_children) : Hide(i)
    \/ \E i \in 1..Len(st_children) : Show(i)

StackSpec == StackInit /\ [][StackNext]_vars

(***************************************************************************)
(* The specification of the deferred realign: one root stack, every call   *)
(* that requests a realign, and update().  st_toggles counts the mutating  *)
(* calls still to be explored.                                             *)
(***************************************************************************)
MaxMutations == 2

DeferBoxes(d) == {ProfileBox(p, p, d) : p \in ToggleProfiles}

DeferBehaviors == {<<FIXED, FIXED>>, <<FLEX, FLEX>>}

DeferInit ==
    /\ OtherIdle
    /\ SolverIdle
    /\ TextIdle
    /\ StackSetUp(Stacks(HORIZONTAL, {START, CENTER}, {CENTER}, {405},
                         {100}),
                  DeferBoxes(HORIZONTAL), MaxCrossBoxes, MaxMutations)

\* what every mutating call leaves alone: the exception and the iteration
\* count of the last update
Mutation(name) ==
    /\ st_toggles > 0
    /\ st_toggles' = st_toggles - 1
    /\ st_need_realign' = TRUE
    /\ st_pending' = st_pending + 1
    /\ st_runs' = 0
    /\ st_last' = name
    /\ UNCHANGED <<st_iterations, st_raised, solverVars, textVars,
                   otherVars>>

\* layout.py lines 172-174: Layout.realign()
Realign ==
    /\ Mutation("realign()")
    /\ UNCHANGED <<st_stack, st_children>>

\* layout.py lines 189-201: Layout.add_widget(widget)
AddWidget(widget) ==
    /\ Len(st_children) < MaxBoxes
    /\ Mutation("add_widget")
    /\ st_children' = add_widget(st_children, widget)
    /\ UNCHANGED st_stack

\* layout.py lines 203-215: Layout.remove_widget of the child at index i
RemoveWidget(i) ==
    /\ Mutation("remove_widget")
    /\ st_children' = remove_widget(st_children, i)
    /\ UNCHANGED st_stack

\* widget.py lines 114-120: child.size_behavior = value
SetChildBehavior(i, value) ==
    /\ st_children[i].size_behavior # value
    /\ Mutation("size_behavior")
    /\ st_children' = SetSizeBehavior(st_children, i, value)
    /\ UNCHANGED st_stack

\* widget.py lines 299-313: child.hide() and child.show()
SetChildVisible(i) ==
    /\ Mutation(IF st_children[i].is_visible THEN "hide" ELSE "show")
    /\ st_children' = SetVisible(st_children, i, ~st_children[i].is_visible)
    /\ UNCHANGED st_stack

\* stack.py lines 75-78: stack.direction = value
SetDirection(value) ==
    /\ Mutation("direction")
    /\ st_stack' = [st_stack EXCEPT !.direction = value]
    /\ UNCHANGED st_children

\* stack.py lines 85-88: stack.main_alignment = value
SetMainAlignment(value) ==
    /\ Mutation("main_alignment")
    /\ st_stack' = [st_stack EXCEPT !.main_alignment = value]
    /\ UNCHANGED st_children

\* stack.py lines 95-98: stack.cross_alignment = value
SetCrossAlignment(value) ==
    /\ Mutation("cross_alignment")
    /\ st_stack' = [st_stack EXCEPT !.cross_alignment = value]
    /\ UNCHANGED st_children

\* stack.py lines 105-108: stack.distribution = value
SetDistribution(value) ==
    /\ Mutation("distribution")
    /\ st_stack' = [st_stack EXCEPT !.distribution = value]
    /\ UNCHANGED st_children

DeferNext ==
    \/ Update
    \/ Realign
    \/ \E widget \in DeferBoxes(st_stack.direction) : AddWidget(widget)
    \/ \E i \in 1..Len(st_children) : RemoveWidget(i)
    \/ \E i \in 1..Len(st_children), value \in DeferBehaviors :
           SetChildBehavior(i, value)
    \/ \E i \in 1..Len(st_children) : SetChildVisible(i)
    \/ \E value \in StackDirection \ {st_stack.direction} :
           SetDirection(value)
    \/ \E value \in LayoutAlignment \ {st_stack.main_alignment} :
           SetMainAlignment(value)
    \/ \E value \in LayoutAlignment \ {st_stack.cross_alignment} :
           SetCrossAlignment(value)
    \/ \E value \in LayoutDistribution \ {st_stack.distribution} :
           SetDistribution(value)

DeferSpec == DeferInit /\ [][DeferNext]_vars

\* the solver and the stack together
LayoutInit == SolverInit \/ StackInit

LayoutNext == SolverNext \/ StackNext

LayoutSpec == LayoutInit /\ [][LayoutNext]_vars

(***************************************************************************)
(* The owner specification: two layouts that take children, and calls of   *)
(* add_widget, add_layout, remove_widget, remove_layout and update on them *)
(* with two widgets and one child layout.                                  *)
(***************************************************************************)
MaxCalls == 4

OwnerInit ==
    /\ SolverIdle
    /\ StackIdle
    /\ TextIdle
    /\ ClickIdle
    /\ LegacyIdle
    /\ ow_children = [l \in OwParents |-> <<>>]
    /\ ow_parent = [c \in OwLayouts \cup OwWidgets |-> NoParent]
    /\ ow_need_realign = [l \in OwLayouts |-> FALSE]
    /\ ow_raised = "none"
    /\ ow_last = NoCall
    /\ ow_calls = MaxCalls

Own == [children |-> ow_children, parent |-> ow_parent,
        need_realign |-> ow_need_realign, raised |-> ow_raised]

\* one call on a layout: res is what it leaves, ow_last what held before
Call(op, layout, child, res) ==
    /\ ow_calls > 0
    /\ ow_calls' = ow_calls - 1
    /\ ow_children' = res.children
    /\ ow_parent' = res.parent
    /\ ow_need_realign' = res.need_realign
    /\ ow_raised' = res.raised
    /\ ow_last' = [op |-> op, layout |-> layout, child |-> child,
                   member |-> (child # NoParent
                               /\ Contains(ow_children[layout], child)),
                   parent |-> IF child = NoParent THEN NoParent
                              ELSE ow_parent[child]]
    /\ UNCHANGED <<solverVars, stackVars, textVars, clickVars, legacyVars>>

\* layout.add_widget(widget)
OwAddWidget(layout, widget) ==
    Call("add_widget", layout, widget, AddChild(Own, layout, widget))

\* layout.add_layout(child)
OwAddLayout(layout, child) ==
    Call("add_layout", layout, child, AddChild(Own, layout, child))

\* layout.remove_widget(widget)
OwRemoveWidget(layout, widget) ==
    Call("remove_widget", layout, widget, RemoveChild(Own, layout, widget))

\* layout.remove_layout(child)
OwRemoveLayout(layout, child) ==
    Call("remove_layout", layout, child, RemoveChild(Own, layout, child))

\* layout.update(events)
OwUpdate(layout) ==
    Call("update", layout, NoParent, UpdateTree(Own, layout))

OwnerNext ==
    \E layout \in OwParents :
        \/ \E widget \in OwWidgets : OwAddWidget(layout, widget)
        \/ \E child \in OwLayouts \ OwParents : OwAddLayout(layout, child)
        \/ \E widget \in OwWidgets : OwRemoveWidget(layout, widget)
        \/ \E child \in OwLayouts \ OwParents :
               OwRemoveLayout(layout, child)
        \/ OwUpdate(layout)

OwnerSpec == OwnerInit /\ [][OwnerNext]_vars

(***************************************************************************)
(* The click specification: one Widget that receives update() calls, each  *)
(* some time after the last with the pointer inside it or not and a batch  *)
(* of mouse button events, and calls of focus(), unfocus(), show() and     *)
(* hide().  When the widget is made the clock reads more than the double   *)
(* click duration, as perf_counter() does on a system that has been up for *)
(* half a second.                                                          *)
(***************************************************************************)
MaxFrames == 3

MaxBatch == 2

\* the time between two frames, in milliseconds
FrameTimes == {200, 600}

MouseButtonDown(button) == [type |-> "MOUSEBUTTONDOWN", button |-> button]

MouseButtonUp(button) == [type |-> "MOUSEBUTTONUP", button |-> button]

\* the left button goes down and up, the right button goes down
MouseEvents == {MouseButtonDown(1), MouseButtonUp(1), MouseButtonDown(3)}

MouseBatches == SeqsUpTo(MouseEvents, MaxBatch)

ClickInit ==
    /\ SolverIdle
    /\ StackIdle
    /\ TextIdle
    /\ OwnerIdle
    /\ LegacyIdle
    /\ wd = NewWidget
    /\ wd_now = 2 * DoubleClickDuration
    /\ wd_fired = <<>>
    /\ wd_downs = <<>>
    /\ wd_last_focus = "none"
    /\ wd_frames = 0

FocusEvents == {"focus_event", "unfocus_event"}

\* the focus and unfocus events of a sequence of fired event methods
FocusEventsOf(fired) == SelectSeq(fired, LAMBDA e : e \in FocusEvents)

\* what a call leaves: the widget, the focus and unfocus events it fired,
\* the left-button-down events it processed and the focus or unfocus event
\* fired last before the call
Leave(res) ==
    /\ wd' = res.w
    /\ wd_fired' = FocusEventsOf(res.fired)
    /\ wd_downs' = res.downs
    /\ wd_last_focus' =
           IF wd_fired = <<>> THEN wd_last_focus ELSE wd_fired[Len(wd_fired)]
    /\ UNCHANGED <<solverVars, stackVars, textVars, ownerVars, legacyVars>>

\* the widget as a call finds it
Entering == [w |-> wd, fired |-> <<>>, downs |-> wd_downs]

\* Widget.update(events), dt milliseconds after the last frame
WdUpdate(dt, inside, events) ==
    /\ wd_frames < MaxFrames
    /\ wd_frames' = wd_frames + 1
    /\ wd_now' = wd_now + dt
    /\ \E res \in {Widget_update(Entering, inside, events, wd_now + dt)} :
           Leave(res)

\* Widget.focus()
WdFocus ==
    /\ \E res \in {Widget_focus(Entering)} : Leave(res)
    /\ UNCHANGED <<wd_now, wd_frames>>

\* Widget.unfocus()
WdUnfocus ==
    /\ \E res \in {Widget_unfocus(Entering)} : Leave(res)
    /\ UNCHANGED <<wd_now, wd_frames>>

\* Widget.show() and Widget.hide() of a widget without a parent layout
WdSetVisible(value) ==
    /\ Leave([Entering EXCEPT !.w.is_visible = value])
    /\ UNCHANGED <<wd_now, wd_frames>>

ClickNext ==
    \/ \E dt \in FrameTimes, inside \in BOOLEAN, events \in MouseBatches :
           WdUpdate(dt, inside, events)
    \/ WdFocus
    \/ WdUnfocus
    \/ \E value \in BOOLEAN : WdSetVisible(value)

ClickSpec == ClickInit /\ [][ClickNext]_vars

(***************************************************************************)
(* The text specification: one TextInput that receives update() calls with *)
(* a pointer position and a batch of events, and calls of clear(), focus() *)
(* and unfocus().  Coordinates are relative to the widget's left edge.     *)
(***************************************************************************)
MaxText == 3

TextInputEvent(t) == [type |-> "TEXTINPUT", text |-> t]

KeyDown(key, mod) ==
    [type |-> "KEYDOWN", key |-> key, mod |-> mod, clipboard |-> <<>>]

\* Ctrl+V while the clipboard holds the given text
Paste(clipboard) ==
    [type |-> "KEYDOWN", key |-> "K_v", mod |-> "KMOD_LCTRL",
     clipboard |-> clipboard]

KeyUp(key) == [type |-> "KEYUP", key |-> key]

MouseDown(x) == [type |-> "MOUSEBUTTONDOWN", x |-> x]

MouseUp == [type |-> "MOUSEBUTTONUP"]

\* the x coordinates of the model: over the first character, between the
\* first and the second, and right of the text
Coords == {2, 12, 100}

\* where pygame.mouse.get_pos() is during an update: at one of the
\* coordinates or left of the widget, and whether that is over the widget
Pointers ==
    {[x |-> c, over |-> 0 <= c /\ c < ti.width] : c \in Coords \cup {-100}}

\* the texts of the TEXTINPUT events: one character, or two at once as an
\* input method delivers them
TypedTexts == {<<"a">>, <<" ">>, <<"a", "a">>}

\* what the clipboard holds when Ctrl+V is pressed: a newline, a letter, or
\* both with a space
Clipboards == {<<"\n">>, <<"a">>, <<" ", "\n", "a">>}

Events ==
    {TextInputEvent(t) : t \in TypedTexts}
        \cup {KeyDown("K_BACKSPACE", m) : m \in {"KMOD_NONE", "KMOD_LCTRL"}}
        \cup {KeyDown(k, m) : k \in {"K_LEFT", "K_RIGHT"},
                              m \in {"KMOD_NONE", "KMOD_LCTRL",
                                     "KMOD_LSHIFT"}}
        \cup {KeyDown(k, "KMOD_LCTRL") : k \in {"K_a", "K_c"}}
        \cup {KeyDown(k, "KMOD_NONE") : k \in {"K_RETURN", "K_HOME", "K_END"}}
        \cup {Paste(c) : c \in Clipboards}
        \cup {KeyUp("K_LSHIFT"), MouseUp}
        \cup {MouseDown(x) : x \in Coords}

\* the event lists of one update: none, one event, or a press and its
\* release
Batches ==
    {<<>>} \cup {<<e>> : e \in Events}
           \cup {<<MouseDown(x), MouseUp>> : x \in Coords}

TextInit ==
    /\ OtherIdle
    /\ SolverIdle
    /\ StackIdle
    /\ TextIdle

\* TextInput.update(events); the text is kept within MaxText characters
\* and the cursor within one place of that
TiUpdate ==
    /\ \E pointer \in Pointers, events \in Batches :
          \E res \in {TextInputCall(ti, pointer, events)} :
              /\ Len(res.w.text) <= MaxText
              /\ res.w.cursor_pos <= MaxText + 1
              /\ ti' = res.w
              /\ ti_put' = res.put
              /\ ti_emitted' = res.emitted
    /\ UNCHANGED <<nav_key, solverVars, stackVars, otherVars>>

\* TextInput.clear()
TiClear ==
    /\ ti' = clear(ti)
    /\ ti_put' = <<>>
    /\ ti_emitted' = 0
    /\ UNCHANGED <<nav_key, solverVars, stackVars, otherVars>>

\* Widget.focus()
TiFocus ==
    /\ ti' = focus(ti)
    /\ ti_put' = <<>>
    /\ ti_emitted' = 0
    /\ UNCHANGED <<nav_key, solverVars, stackVars, otherVars>>

\* Widget.unfocus()
TiUnfocus ==
    /\ ti' = unfocus(ti)
    /\ ti_put' = <<>>
    /\ ti_emitted' = 0
    /\ UNCHANGED <<nav_key, solverVars, stackVars, otherVars>>

TextNext == TiUpdate \/ TiClear \/ TiFocus \/ TiUnfocus

TextSpec == TextInit /\ [][TextNext]_vars

(***************************************************************************)
(* The scroll specification: the text specification with a TextInput that  *)
(* is too narrow for its text, in each of the fonts.                       *)
(***************************************************************************)
MaxScrollText == 2

\* the widths of the narrow widget
NarrowWidths == {16}

ScrollInit ==
    /\ OtherIdle
    /\ SolverIdle
    /\ StackIdle
    /\ \E font \in Fonts, width \in NarrowWidths :
           ti = [NewTextInput EXCEPT !.font = font, !.width = width]
    /\ ti_put = <<>>
    /\ ti_emitted = 0
    /\ nav_key = NoKey

\* the events of the text specification that can change the text, the
\* cursor, the selection or the scroll offset, one to an update
ScrollBatches ==
    {<<>>} \cup {<<e>> : e \in
                    {e \in Events :
                        e \notin {KeyDown("K_c", "KMOD_LCTRL"),
                                  KeyDown("K_RETURN", "KMOD_NONE"),
                                  Paste(<<"\n">>)}}}

\* TextInput.update(events) of the narrow widget; the text is kept within
\* MaxScrollText characters and the cursor within one place of that
ScUpdate ==
    /\ \E pointer \in Pointers, events \in ScrollBatches :
          \E res \in {TextInputCall(ti, pointer, events)} :
              /\ Len(res.w.text) <= MaxScrollText
              /\ res.w.cursor_pos <= MaxScrollText + 1
              /\ ti' = res.w
              /\ ti_put' = res.put
              /\ ti_emitted' = res.emitted
    /\ UNCHANGED <<nav_key, solverVars, stackVars, otherVars>>

ScrollNext == ScUpdate \/ TiClear \/ TiFocus \/ TiUnfocus

ScrollSpec == ScrollInit /\ [][ScrollNext]_vars

(***************************************************************************)
(* The blink specification: the text specification with time going by      *)
(* between the updates, so that the cursor blinks.                         *)
(***************************************************************************)
MaxBlinkText == 2

\* the milliseconds between two updates
BlinkElapsed == {0, 300}

BlinkEvents ==
    {TextInputEvent(<<"a">>), Paste(<<"a">>), KeyUp("K_LSHIFT"),
     MouseDown(12), MouseUp, KeyDown("K_a", "KMOD_LCTRL"),
     KeyDown("K_LEFT", "KMOD_LSHIFT")}
        \cup {KeyDown(k, "KMOD_NONE") :
                 k \in {"K_BACKSPACE", "K_LEFT", "K_RIGHT", "K_HOME",
                        "K_END"}}

BlinkBatches ==
    {<<>>, <<MouseDown(12), MouseUp>>} \cup {<<e>> : e \in BlinkEvents}

BlinkInit ==
    /\ OtherIdle
    /\ SolverIdle
    /\ StackIdle
    /\ TextIdle

\* TextInput.update(events) some time after the update before; the text is
\* kept within MaxBlinkText characters
BkUpdate ==
    /\ \E pointer \in Pointers, events \in BlinkBatches,
          elapsed \in BlinkElapsed :
          \E res \in {TextInputTimedCall(ti, pointer, events, elapsed)} :
              /\ Len(res.w.text) <= MaxBlinkText
              /\ res.w.cursor_pos <= MaxBlinkText + 1
              /\ ti' = res.w
              /\ ti_put' = res.put
              /\ ti_emitted' = res.emitted
    /\ UNCHANGED <<nav_key, solverVars, stackVars, otherVars>>

BlinkNext == BkUpdate \/ TiClear \/ TiFocus \/ TiUnfocus

BlinkSpec == BlinkInit /\ [][BlinkNext]_vars

(***************************************************************************)
(* The navigation specification: a focused TextInput that holds a text,    *)
(* with the cursor somewhere in it and nothing selected, receives update() *)
(* calls with one navigation key each.  The text never changes, so that    *)
(* it can be longer than in the text specification.                        *)
(***************************************************************************)
MaxNavText == 4

\* 'foo bar  baz'
FooBarBaz == <<"f", "o", "o", " ", "b", "a", "r", " ", " ", "b", "a", "z">>

\* the texts of up to MaxNavText letters and spaces, and 'foo bar  baz'
NavTexts ==
    UNION {[1..n -> {"a", " "}] : n \in 0..MaxNavText} \cup {FooBarBaz}

\* the arrow keys alone, with Ctrl and with Shift, Home, End and the
\* release of Shift
NavKeys ==
    {KeyDown(k, m) : k \in {"K_LEFT", "K_RIGHT"},
                     m \in {"KMOD_NONE", "KMOD_LCTRL", "KMOD_LSHIFT"}}
        \cup {KeyDown(k, "KMOD_NONE") : k \in {"K_HOME", "K_END"}}
        \cup {KeyUp("K_LSHIFT")}

\* the text was typed, the cursor moved with the arrow keys; 'foo bar  baz'
\* has its cursor at the end
NavInit ==
    /\ OtherIdle
    /\ SolverIdle
    /\ StackIdle
    /\ \E text \in NavTexts, c \in 0..Len(FooBarBaz) :
           /\ c <= Len(text)
           /\ text = FooBarBaz => c = Len(text)
           /\ ti = [focus(NewTextInput) EXCEPT !.text = text,
                                               !.cursor_pos = c]
    /\ ti_put = <<>>
    /\ ti_emitted = 0
    /\ nav_key = NoKey

\* TextInput.update([event]) with one of the navigation keys
NavUpdate ==
    /\ \E pointer \in Pointers, event \in NavKeys :
          \E res \in {TextInputCall(ti, pointer, <<event>>)} :
              /\ ti' = res.w
              /\ ti_put' = res.put
              /\ ti_emitted' = res.emitted
              /\ nav_key' = event
    /\ UNCHANGED <<solverVars, stackVars, otherVars>>

NavNext == NavUpdate

NavSpec == NavInit /\ [][NavNext]_vars

(***************************************************************************)
(* The specification of nested stacks: a root Stack that holds one child   *)
(* stack, before or after a widget or alone, the child stack holding up to *)
(* MaxNested widgets.  The root is updated, resized (with the realign      *)
(* request that goes with it), and widgets of the child stack are hidden   *)
(* and shown.  st_last tells the first update after a change from the      *)
(* updates that directly follow an update.                                 *)
(***************************************************************************)
MaxNested == 2

MaxNestToggles == 1

NestedWidgets(d) ==
    {ProfileBox(p, p, d) : p \in {<<FIXED, 50, 0, 0>>, <<GROW, 30, 0, 0>>}}

RootSizes == {<<R(200), R(100)>>, <<R(300), R(150)>>}

\* the child stack as the code under src/ makes it, and with is_visible
\* set on it
ChildStacks ==
    UNION {{ChildStack(d, ws), SetIsVisible(ChildStack(d, ws), TRUE)} :
              d \in StackDirection,
              ws \in UNION {SeqsUpTo(NestedWidgets(a), MaxNested) :
                               a \in StackDirection}}

NestInit ==
    /\ OtherIdle
    /\ SolverIdle
    /\ TextIdle
    /\ st_stack \in Stacks(VERTICAL, {CENTER}, {CENTER}, {100}, {200})
                       \cup Stacks(HORIZONTAL, {CENTER}, {CENTER}, {200},
                                   {100})
    /\ st_stack.distribution = SPACE_AROUND
    /\ \E c \in ChildStacks,
          w \in {ProfileBox(<<FIXED, 70, 0, 0>>, <<FIXED, 70, 0, 0>>, 0)} :
          st_children \in {<<c>>, <<w, c>>, <<c, w>>}
    /\ st_need_realign = TRUE
    /\ st_iterations = 0
    /\ st_raised = "none"
    /\ st_last = "init"
    /\ st_toggles = MaxNestToggles
    /\ st_pending = 0
    /\ st_runs = 0

\* root.update(events)
NsUpdate ==
    /\ \E res \in {Stack_update(st_stack, st_children, st_need_realign)} :
           /\ st_children' = res.children
           /\ st_need_realign' = res.need_realign
           /\ st_raised' = res.raised
           /\ st_iterations' = IF res.ran THEN res.iterations
                               ELSE st_iterations
           /\ st_runs' = IF res.ran THEN 1 ELSE 0
    /\ st_last' = IF st_last \in {"update", "update_again"}
                  THEN "update_again" ELSE "update"
    /\ UNCHANGED <<st_stack, st_toggles, st_pending, solverVars, textVars,
                   otherVars>>

\* root.current_size = size; root.realign()
NsResize(size) ==
    /\ st_stack.current_size # size
    /\ st_last \in {"update", "update_again"}
    /\ st_stack' = [st_stack EXCEPT !.current_size = size]
    /\ st_need_realign' = TRUE
    /\ st_last' = "resize"
    /\ UNCHANGED <<st_children, st_iterations, st_raised, st_toggles,
                   st_pending, st_runs, solverVars, textVars, otherVars>>

\* Widget.show() or Widget.hide() of widget k of the child stack at i:
\* the flag is set and the parent layout, the child stack, is asked to
\* realign (widget.py lines 299-313)
NsSetVisible(i, k, v) ==
    /\ st_toggles > 0
    /\ IsStack(st_children[i])
    /\ k \in 1..Len(st_children[i].children)
    /\ st_children[i].children[k].is_visible # v
    /\ st_children' =
           [st_children EXCEPT
              ![i].children = SetVisible(@, k, v),
              ![i].need_realign = TRUE]
    /\ st_toggles' = st_toggles - 1
    /\ st_last' = IF v THEN "show" ELSE "hide"
    /\ UNCHANGED <<st_stack, st_need_realign, st_iterations, st_raised,
                   st_pending, st_runs, solverVars, textVars, otherVars>>

NestNext ==
    \/ NsUpdate
    \/ \E size \in RootSizes : NsResize(size)
    \/ \E i \in 1..Len(st_children), k \in 1..MaxNested, v \in BOOLEAN :
           NsSetVisible(i, k, v)

NestSpec == NestInit /\ [][NestNext]_vars

(***************************************************************************)
(* The tree specification: three layouts and two widgets are put together  *)
(* into trees by add_layout and add_widget (each object is added once, and *)
(* never below itself), realigns are requested, and update() is called on  *)
(* a layout that has no parent.  ow_last holds the log of the last pass.   *)
(***************************************************************************)
TreeInit ==
    /\ SolverIdle
    /\ StackIdle
    /\ TextIdle
    /\ ClickIdle
    /\ LegacyIdle
    /\ ow_children = [l \in OwLayouts |-> <<>>]
    /\ ow_parent = [c \in OwLayouts \cup OwWidgets |-> NoParent]
    /\ ow_need_realign = [l \in OwLayouts |-> FALSE]
    /\ ow_raised = "none"
    /\ ow_last = [op |-> "none", layout |-> NoParent, log |-> <<>>]
    /\ ow_calls = 0

TreeLeave(op, layout, res, log) ==
    /\ ow_children' = res.children
    /\ ow_parent' = res.parent
    /\ ow_need_realign' = res.need_realign
    /\ ow_raised' = res.raised
    /\ ow_last' = [op |-> op, layout |-> layout, log |-> log]
    /\ UNCHANGED <<ow_calls, solverVars, stackVars, textVars, clickVars,
                   legacyVars>>

\* layout.add_widget(child) or layout.add_layout(child) of an object that
\* is in no layout yet and is not above the layout
TrAdd(layout, child) ==
    /\ ow_parent[child] = NoParent
    /\ child # layout
    /\ child \notin Ancestors(ow_parent, layout)
    /\ TreeLeave("add", layout, AddChild(Own, layout, child), <<>>)

\* layout.realign()
TrRealign(layout) ==
    /\ ~ow_need_realign[layout]
    /\ TreeLeave("realign", layout, Layout_realign(Own, layout), <<>>)

\* layout.update(events) of a root layout
TrUpdate(layout) ==
    /\ ow_parent[layout] = NoParent
    /\ \E res \in {Layout_update(
                      [children |-> ow_children,
                       need_realign |-> ow_need_realign, log |-> <<>>],
                      layout)} :
          TreeLeave("update", layout,
                    [Own EXCEPT !.need_realign = res.need_realign], res.log)

TreeNext ==
    \E layout \in OwLayouts :
        \/ \E child \in OwLayouts \cup OwWidgets : TrAdd(layout, child)
        \/ TrRealign(layout)
        \/ TrUpdate(layout)

TreeSpec == TreeInit /\ [][TreeNext]_vars

(***************************************************************************)
(* The legacy specification: one VerticalStack of one of the two files,    *)
(* with FIXED and GROW widgets of several preferred and maximum heights,   *)
(* and one call of realign().                                              *)
(***************************************************************************)
MaxLegacyBoxes == 3

LegacyHeights == {40, 100}

LegacyChildren ==
    {[vertical_behavior |-> FIXED, preferred |-> 30, maximum |-> m,
      current |-> R(30), y |-> R(0)] : m \in {None, 0}}
        \cup {[vertical_behavior |-> GROW, preferred |-> p, maximum |-> m,
               current |-> R(p), y |-> R(0)] :
                 p \in {10, 30}, m \in {None, 0, 20, 40}}

\* a widget of src/layouts/verticalstack.py holds a Size, whose height is
\* a number; a widget of src/verticalstack.py holds None or a number
LegacyInit ==
    /\ SolverIdle
    /\ StackIdle
    /\ TextIdle
    /\ OwnerIdle
    /\ ClickIdle
    /\ vs_variant \in {"layouts", "src"}
    /\ vs_size \in LegacyHeights
    /\ vs_alignment \in {TOP, BOTTOM, X_CENTER}
    /\ vs_children \in SeqsUpTo(LegacyChildren, MaxLegacyBoxes)
    /\ \A i \in 1..Len(vs_children) :
           vs_children[i].maximum =
               (IF vs_variant = "layouts" THEN 0 ELSE None)
           \/ vs_children[i].maximum > 0
           \/ (vs_variant = "src" /\ vs_children[i].maximum = 0
               /\ vs_children[i].vertical_behavior = GROW)
    /\ vs_result = NoRealign
    /\ vs_pc = "ready"

\* stack.realign()
VsRealign ==
    /\ vs_pc = "ready"
    /\ vs_result' = VerticalStack_realign(vs_variant, vs_size, vs_alignment,
                                          vs_children)
    /\ vs_pc' = "done"
    /\ UNCHANGED <<vs_variant, vs_size, vs_alignment, vs_children,
                   solverVars, stackVars, textVars, ownerVars, clickVars>>

LegacyNext == VsRealign

LegacySpec == LegacyInit /\ [][LegacyNext]_vars

(***************************************************************************)
(* Claims about solve_size_constraints (SolverSpec).                       *)
(***************************************************************************)
Solved == sv_pc = "solved"

SvDiff == RatSub(sv_size, TotalPreferred(sv_input, sv_axis))

SvDirection == IF RatLt(R(0), SvDiff) THEN 1 ELSE -1

SvEligible == EligibleFor(sv_input, sv_axis, SvDirection)

SumCurrent(widgets, axis) ==
    RatSum([i \in 1..Len(widgets) |-> Get(widgets[i].current_size, axis)])

\* |a - b| <= EPSILON
Near(a, b) == RatLe(RatAbs(RatSub(a, b)), EPSILON)

\* the preferred size of the box lies within its own limits on the axis
WithinLimits(w, axis) ==
    /\ RatLe(Get(w.minimum_size, axis), Get(w.preferred_size, axis))
    /\ RatLt(R(0), Get(w.maximum_size, axis))
          => RatLe(Get(w.preferred_size, axis), Get(w.maximum_size, axis))

IsEligible(i) == \E k \in 1..Len(SvEligible) : SvEligible[k] = i

\* C2 (as claimed): in a surplus solve in which an eligible box ends at its
\* maximum and another eligible box has no maximum, the sizes add up to the
\* available length within EPSILON.  Stated for boxes whose preferred sizes
\* lie within their limits.
C2_UnlimitedAbsorb ==
    ( /\ Solved
      /\ RatLt(R(0), SvDiff)
      /\ \A i \in 1..Len(sv_input) : WithinLimits(sv_input[i], sv_axis)
      /\ \E i \in 1..Len(sv_input) :
            /\ IsEligible(i)
            /\ RatLt(R(0), Get(sv_input[i].maximum_size, sv_axis))
            /\ Get(sv_widgets[i].current_size, sv_axis)
                  = Get(sv_input[i].maximum_size, sv_axis)
      /\ \E i \in 1..Len(sv_input) :
            /\ IsEligible(i)
            /\ Get(sv_input[i].maximum_size, sv_axis) = R(0) )
    => Near(SumCurrent(sv_widgets, sv_axis), sv_size)

\* C3 (as claimed): after the solve every box with a maximum is at most at
\* its maximum, and after a deficit solve every box is at least at its
\* minimum (within EPSILON), whatever its behaviour and preferred size.
C3_AllBoxesInLimits ==
    Solved =>
        \A i \in 1..Len(sv_widgets) :
            /\ RatLt(R(0), Get(sv_widgets[i].maximum_size, sv_axis))
                  => RatLe(Get(sv_widgets[i].current_size, sv_axis),
                           RatAdd(Get(sv_widgets[i].maximum_size, sv_axis),
                                  EPSILON))
            /\ RatLt(SvDiff, R(0))
                  => RatLe(RatSub(Get(sv_widgets[i].minimum_size, sv_axis),
                                  EPSILON),
                           Get(sv_widgets[i].current_size, sv_axis))

\* C3 (amended): the same for every box whose preferred size lies within
\* its own limits.
C3_InLimitsWhenPreferredIs ==
    Solved =>
        \A i \in 1..Len(sv_widgets) :
            WithinLimits(sv_input[i], sv_axis) =>
                /\ RatLt(R(0), Get(sv_widgets[i].maximum_size, sv_axis))
                      => RatLe(Get(sv_widgets[i].current_size, sv_axis),
                               RatAdd(Get(sv_widgets[i].maximum_size,
                                          sv_axis), EPSILON))
                /\ RatLt(SvDiff, R(0))
                      => RatLe(RatSub(Get(sv_widgets[i].minimum_size,
                                          sv_axis), EPSILON),
                               Get(sv_widgets[i].current_size, sv_axis))

\* C3 witness: a solve that stopped a growing box at its maximum.
C3_Witness ==
    /\ Solved
    /\ RatLt(R(0), SvDiff)
    /\ \E i \in 1..Len(sv_widgets) :
          /\ IsEligible(i)
          /\ RatLt(Get(sv_input[i].preferred_size, sv_axis),
                   Get(sv_input[i].maximum_size, sv_axis))
          /\ Get(sv_widgets[i].current_size, sv_axis)
                = Get(sv_input[i].maximum_size, sv_axis)
          /\ RatLt(Get(sv_input[i].maximum_size, sv_axis),
                   RatAdd(Get(sv_input[i].preferred_size, sv_axis),
                          RatDivInt(SvDiff, Len(SvEligible))))

\* no eligible box is clamped: the equal share of the first iteration keeps
\* every eligible box within its limit
NoEligibleClamped ==
    LET share == RatDivInt(RatAbs(SvDiff), Len(SvEligible))
    IN  \A k \in 1..Len(SvEligible) :
            LET w == sv_input[SvEligible[k]]
            IN  IF SvDirection = 1
                THEN \/ Get(w.maximum_size, sv_axis) = R(0)
                     \/ RatLe(RatAdd(Get(w.preferred_size, sv_axis), share),
                              Get(w.maximum_size, sv_axis))
                ELSE RatLe(Get(w.minimum_size, sv_axis),
                           RatSub(Get(w.preferred_size, sv_axis), share))

\* C4: with at least one eligible box and no eligible box clamped, the
\* sizes of all boxes add up to the available length within EPSILON.
C4_Conservation ==
    (Solved /\ Len(SvEligible) > 0 /\ NoEligibleClamped)
        => Near(SumCurrent(sv_widgets, sv_axis), sv_size)

\* C4 witness: such a solve with a real discrepancy, two eligible boxes and
\* a box that is not eligible.
C4_Witness ==
    /\ Solved
    /\ SvDiff # R(0)
    /\ Len(SvEligible) = 2
    /\ Len(sv_input) = 3
    /\ NoEligibleClamped
    /\ sv_widgets # sv_input

(***************************************************************************)
(* Claims about Stack._realign (StackSpec, LayoutSpec).                    *)
(***************************************************************************)
\* the last operation on the stack was a realign that returned normally
JustRealigned == st_last \in {"realign", "realign_again"}

StVisible == VisibleChildren(st_children)

MainAxis == st_stack.direction

StackLength == Get(st_stack.current_size, MainAxis)

\* main-axis size and offset of the k-th visible child
MainSize(k) == Get(st_children[StVisible[k]].current_size, MainAxis)

MainPos(k) == Get(st_children[StVisible[k]].relative_position, MainAxis)

MainSizeList == [k \in 1..Len(StVisible) |-> MainSize(k)]

MainPosList == [k \in 1..Len(StVisible) |-> MainPos(k)]

\* each visible child but the first starts where the previous one ends,
\* plus gap
Contiguous(gap) ==
    \A k \in 1..(Len(StVisible) - 1) :
        MainPos(k + 1) = RatAdd(RatAdd(MainPos(k), MainSize(k)), gap)

\* C5: a realign that directly follows a realign, with nothing but the
\* request in between, leaves every child's current size and relative
\* position as the first one left them (the same for a realign that raised
\* and is run again).
C5_RealignIdempotent ==
    [][(/\ st_need_realign
        /\ st_last \in {"request", "raised"}
        /\ st_last' \in {"realign_again", "raised"})
          => st_children' = st_children]_vars

\* C5 witness: a second realign in a row of a stack whose solve resized a
\* child.
C5_Witness ==
    /\ st_last = "realign_again"
    /\ st_iterations > 0
    /\ \E k \in 1..Len(StVisible) :
          MainSize(k) # Get(st_children[StVisible[k]].preferred_size, MainAxis)

\* a visible GROW child whose preferred size does not exceed its maximum is
\* not below its preferred size on the axis
GrowKeepsPreferred(axis) ==
    \A k \in 1..Len(StVisible) :
        LET w == st_children[StVisible[k]]
        IN  ( /\ Get(w.size_behavior, axis) = GROW
              /\ RatLt(R(0), Get(w.maximum_size, axis))
                    => RatLe(Get(w.preferred_size, axis),
                             Get(w.maximum_size, axis)) )
            => RatLe(Get(w.preferred_size, axis), Get(w.current_size, axis))

\* C6 (as claimed): after a realign every such child is at least at its
\* preferred size, on the main axis and on the cross axis.
C6_GrowNotBelowPreferred ==
    JustRealigned => GrowKeepsPreferred(0) /\ GrowKeepsPreferred(1)

\* the main-axis half of C6
GrowKeepsPreferredOnMain == JustRealigned => GrowKeepsPreferred(MainAxis)

\* C7: the solver leaves the preferred, minimum and maximum sizes and the
\* behaviours of every box alone, writes no size on the other axis and none
\* of a FIXED box; after a realign every visible child that is FIXED on an
\* axis has its preferred size on that axis.
C7_FixedNeverResized ==
    /\ Solved =>
          /\ Len(sv_widgets) = Len(sv_input)
          /\ \A i \in 1..Len(sv_input) :
                /\ sv_widgets[i].preferred_size = sv_input[i].preferred_size
                /\ sv_widgets[i].minimum_size = sv_input[i].minimum_size
                /\ sv_widgets[i].maximum_size = sv_input[i].maximum_size
                /\ sv_widgets[i].size_behavior = sv_input[i].size_behavior
                /\ Get(sv_widgets[i].current_size, 1 - sv_axis)
                      = Get(sv_input[i].current_size, 1 - sv_axis)
                /\ Get(sv_input[i].size_behavior, sv_axis) = FIXED
                      => sv_widgets[i].current_size
                            = sv_input[i].current_size
    /\ JustRealigned =>
          \A k \in 1..Len(StVisible) : \A axis \in {0, 1} :
              LET w == st_children[StVisible[k]]
              IN  Get(w.size_behavior, axis) = FIXED
                     => Get(w.current_size, axis)
                           = Get(w.preferred_size, axis)

\* C7 witness: a solve that resized a box next to a FIXED one.
C7_Witness ==
    /\ Solved
    /\ sv_iterations > 0
    /\ \E i \in 1..Len(sv_input) :
          Get(sv_input[i].size_behavior, sv_axis) = FIXED
    /\ \E i \in 1..Len(sv_input) :
          sv_widgets[i].current_size # sv_input[i].current_size

\* the list of the visible children alone
WithoutHidden(children) ==
    [k \in 1..Len(VisibleChildren(children)) |->
        children[VisibleChildren(children)[k]]]

\* C8: a realign leaves the visible children as a realign of the list
\* without the hidden children leaves them, and leaves the hidden children
\* as they were.
C8_HiddenIgnored ==
    [][(st_need_realign /\ st_last' \in {"realign", "realign_again"})
          => \E res \in {Stack_realign(st_stack,
                                       WithoutHidden(st_children))} :
                /\ res.raised = "none"
                /\ Len(st_children') = Len(st_children)
                /\ \A k \in 1..Len(StVisible) :
                      st_children'[StVisible[k]] = res.children[k]
                /\ \A i \in 1..Len(st_children) :
                      ~st_children[i].is_visible
                          => st_children'[i] = st_children[i]]_vars

\* C8 witness: a realigned stack of a hidden child, laid out before it was
\* hidden, and two visible children.
C8_Witness ==
    /\ JustRealigned
    /\ Len(st_children) = 3
    /\ Len(StVisible) = 2
    /\ \E i \in 1..Len(st_children) :
          /\ ~st_children[i].is_visible
          /\ Get(st_children[i].relative_position, MainAxis) # R(0)

\* C9: under START the first visible child is at 0 and each next one starts
\* where the previous one ends (sizes 70, 115, 70 give 0, 70, 185); under
\* END they are as contiguous and the last one ends at the stack's length.
C9_StartEndPlacement ==
    JustRealigned =>
        /\ st_stack.main_alignment = START =>
              /\ Len(StVisible) > 0 => MainPos(1) = R(0)
              /\ Contiguous(R(0))
              /\ MainSizeList = <<R(70), R(115), R(70)>>
                    => MainPosList = <<R(0), R(70), R(185)>>
        /\ st_stack.main_alignment = END =>
              /\ Contiguous(R(0))
              /\ Len(StVisible) > 0 =>
                    RatAdd(MainPos(Len(StVisible)),
                           MainSize(Len(StVisible))) = StackLength

\* C9 witness: the three children of sizes 70, 115, 70 under START.
C9_Witness ==
    /\ JustRealigned
    /\ st_stack.main_alignment = START
    /\ MainSizeList = <<R(70), R(115), R(70)>>

\* C10: under CENTER and SPACE_BETWEEN, with two visible children or more
\* whose sizes total less than the stack's length, the first child is at 0,
\* consecutive children are (length - total) / (n - 1) apart and the last
\* one ends at the stack's length (total 255 in 405 with 3 children: 75).
C10_SpaceBetweenGap ==
    ( /\ JustRealigned
      /\ st_stack.main_alignment = CENTER
      /\ st_stack.distribution = SPACE_BETWEEN
      /\ Len(StVisible) >= 2
      /\ RatLt(RatSum(MainSizeList), StackLength) )
    => /\ MainPos(1) = R(0)
       /\ Contiguous(RatDivInt(RatSub(StackLength, RatSum(MainSizeList)),
                               Len(StVisible) - 1))
       /\ RatAdd(MainPos(Len(StVisible)), MainSize(Len(StVisible)))
             = StackLength
       /\ ( /\ Len(StVisible) = 3
            /\ RatSum(MainSizeList) = R(255)
            /\ StackLength = R(405) )
          => Contiguous(R(75))

\* C10 witness: three children totalling 255 in a stack of length 405.
C10_Witness ==
    /\ JustRealigned
    /\ st_stack.main_alignment = CENTER
    /\ st_stack.distribution = SPACE_BETWEEN
    /\ Len(StVisible) = 3
    /\ RatSum(MainSizeList) = R(255)
    /\ StackLength = R(405)

\* C11 (as claimed): no update of the stack ends with an exception raised by
\* _realign, whatever the number of visible children, the alignments, the
\* distribution and the stack's size.
C11_RealignNeverRaises == st_raised = "none"

\* the exception of C11 needs CENTER, SPACE_BETWEEN and one visible child
RaisesOnlyForOneCentered ==
    st_last = "raised" =>
        /\ st_raised = "ZeroDivisionError"
        /\ st_stack.main_alignment = CENTER
        /\ st_stack.distribution = SPACE_BETWEEN
        /\ Len(StVisible) = 1

\* a step of update(): it alone ends with no request pending (every other
\* call adds one)
UpdateStep == st_pending' = 0

\* a step of a call that requests a realign
RequestStep == st_pending' = st_pending + 1

\* C12 (as claimed): an update() that follows one or more realign requests
\* runs _realign exactly once and leaves the flag clear; an update() of a
\* layout whose flag is clear runs _realign zero times; a call that requests
\* a realign runs _realign zero times and only sets the flag.
C12_DeferredAndBatched ==
    [][/\ (UpdateStep /\ st_pending >= 1) =>
              (st_runs' = 1 /\ ~st_need_realign')
       /\ (UpdateStep /\ ~st_need_realign) => st_runs' = 0
       /\ RequestStep => (st_runs' = 0 /\ st_need_realign')]_vars

\* what holds of C12 in the code: the flag is clear after the update only
\* if _realign returned; after an exception it stays set and the next
\* update() runs _realign again without any request
DeferredUnlessRaised ==
    [][/\ (UpdateStep /\ st_pending >= 1) =>
              /\ st_runs' = 1
              /\ st_need_realign' = (st_raised' # "none")
       /\ (UpdateStep /\ ~st_need_realign) => st_runs' = 0
       /\ RequestStep => (st_runs' = 0 /\ st_need_realign')]_vars

\* an update() with no request since the last one, which raised nothing,
\* does not run _realign
NoRequestNoRun ==
    [][(UpdateStep /\ st_pending = 0 /\ st_raised = "none") =>
           st_runs' = 0]_vars

(***************************************************************************)
(* Claims about the child lists of layouts (OwnerSpec).                    *)
(***************************************************************************)
OwObjects == OwLayouts \cup OwWidgets

\* the layouts whose child list holds the object
Owners(c) == {l \in OwParents : Contains(ow_children[l], c)}

AddCalls == {"add_widget", "add_layout"}

RemoveCalls == {"remove_widget", "remove_layout"}

\* the last call added a child that belonged to another layout
Reparented ==
    /\ ow_last.op \in AddCalls
    /\ ow_last.parent \notin {NoParent, ow_last.layout}

\* C13 (as claimed): every object is in the child list of at most one
\* layout, and its parent_layout is that layout, or None if it is in no
\* list; adding a child that belongs to another layout takes it out of the
\* old parent's list and requests a realign of the old and the new parent.
C13_SingleOwner ==
    /\ \A c \in OwObjects :
           /\ Cardinality(Owners(c)) <= 1
           /\ Owners(c) = {} => ow_parent[c] = NoParent
           /\ \A l \in Owners(c) : ow_parent[c] = l
    /\ Reparented =>
           /\ ~Contains(ow_children[ow_last.parent], ow_last.child)
           /\ ow_need_realign[ow_last.parent]
           /\ ow_need_realign[ow_last.layout]

\* what add_widget and add_layout do establish: the child is the last entry
\* of the layout's list, its parent_layout is the layout, and the layout has
\* a realign pending
AddedLast ==
    ow_last.op \in AddCalls =>
        /\ ow_raised = "none"
        /\ ow_children[ow_last.layout] # <<>>
        /\ ow_children[ow_last.layout][Len(ow_children[ow_last.layout])]
               = ow_last.child
        /\ ow_parent[ow_last.child] = ow_last.layout
        /\ ow_need_realign[ow_last.layout]

NoDuplicates(s) == \A j, k \in 1..Len(s) : s[j] = s[k] => j = k

\* C14 (as claimed): adding an object that is already in the layout's child
\* list fails with an error, and no child list ever holds an object twice.
C14_NoDoubleAdd ==
    /\ \A l \in OwParents : NoDuplicates(ow_children[l])
    /\ (ow_last.op \in AddCalls /\ ow_last.member) => ow_raised # "none"

\* C15: remove_widget and remove_layout of an object that is not in the
\* layout's child list fail with an error (ValueError) and leave every
\* child list, every parent_layout and every realign flag as they were.
C15_RemoveAbsentFails ==
    [][(ow_last'.op \in RemoveCalls /\ ~ow_last'.member) =>
           /\ ow_raised' = "ValueError"
           /\ UNCHANGED <<ow_children, ow_parent, ow_need_realign>>]_vars

\* a removal of an object that is not in the list has failed, on a layout
\* that has children and no realign pending, for an object that belongs to
\* the other layout
C15_Witness ==
    /\ ow_last.op \in RemoveCalls
    /\ ~ow_last.member
    /\ ow_raised = "ValueError"
    /\ ow_children[ow_last.layout] # <<>>
    /\ ~ow_need_realign[ow_last.layout]
    /\ ow_parent[ow_last.child] \notin {NoParent, ow_last.layout}

(***************************************************************************)
(* Claims about the mouse and focus events of a Widget (ClickSpec).        *)
(***************************************************************************)
CountOf(fired, name) == Len(SelectSeq(fired, LAMBDA e : e = name))

Pressed(down) == CountOf(down.fired, "mouse_press_event")

DoubleClicked(down) == CountOf(down.fired, "mouse_double_click_event")

\* two left-button-down events in a row, both pressing the widget, the
\* first of which opens a new double-click window
PressPairs ==
    {k \in 1..(Len(wd_downs) - 1) :
        /\ Pressed(wd_downs[k]) = 1
        /\ Pressed(wd_downs[k + 1]) = 1
        /\ DoubleClicked(wd_downs[k]) = 0}

Elapsed(k) == wd_downs[k + 1].time - wd_downs[k].time

\* the first two parts of C16: of two presses of the hovered widget, the
\* second fires one double-click event if it comes within the duration and
\* none if it does not
DoubleClickOfPressPair ==
    \A k \in PressPairs :
        DoubleClicked(wd_downs[k + 1]) =
            IF Elapsed(k) < DoubleClickDuration THEN 1 ELSE 0

\* C16 (as claimed): two left-button-down events on a visible, hovered
\* widget fire mouse_press_event twice and mouse_double_click_event once if
\* they are less than double_click_duration apart and not at all if they
\* are at least that far apart; a double-click event is never fired by an
\* event that does not also fire a press event on the widget.
C16_DoubleClickWithPress ==
    /\ DoubleClickOfPressPair
    /\ \A k \in 1..Len(wd_downs) :
           DoubleClicked(wd_downs[k]) > 0 => Pressed(wd_downs[k]) > 0

\* three presses of the widget in a row, each within the duration of the
\* one before, the first of which opens a new double-click window
RapidTriples ==
    {k \in 1..(Len(wd_downs) - 2) :
        /\ k \in PressPairs
        /\ Pressed(wd_downs[k + 2]) = 1
        /\ Elapsed(k) < DoubleClickDuration
        /\ Elapsed(k + 1) < DoubleClickDuration}

\* C17 (as claimed): of three rapid left-button-down events on the widget
\* the second fires mouse_double_click_event and the third does not.
C17_ThirdClickStartsAnew ==
    \A k \in RapidTriples :
        /\ DoubleClicked(wd_downs[k + 1]) = 1
        /\ DoubleClicked(wd_downs[k + 2]) = 0

\* what the code does with a rapid third click: it fires the double-click
\* event again
ThirdClickDoubleClicks ==
    \A k \in RapidTriples :
        /\ DoubleClicked(wd_downs[k + 1]) = 1
        /\ DoubleClicked(wd_downs[k + 2]) = 1

\* the focus and unfocus events fired so far, as far as the state records
\* them: the last one before the last call, then those of the last call;
\* a new widget is unfocused
RecentFocusEvents ==
    <<IF wd_last_focus = "none" THEN "unfocus_event" ELSE wd_last_focus>>
        \o wd_fired

\* C18: focus_event and unfocus_event fire alternately, focus_event first,
\* whatever focus() and unfocus() calls and mouse button events the widget
\* sees; on_focus tells which of the two fired last.
C18_FocusEventsAlternate ==
    /\ \A k \in 1..(Len(RecentFocusEvents) - 1) :
           RecentFocusEvents[k] # RecentFocusEvents[k + 1]
    /\ wd.on_focus =
           (RecentFocusEvents[Len(RecentFocusEvents)] = "focus_event")

\* the widget was pressed in two frames; the first press fired focus_event
\* and the call after it, on the focused widget, fired nothing
C18_Witness ==
    /\ wd.on_focus
    /\ wd_last_focus = "focus_event"
    /\ wd_fired = <<>>
    /\ \E k \in 1..(Len(wd_downs) - 1) :
           /\ Pressed(wd_downs[k]) = 1
           /\ Pressed(wd_downs[k + 1]) = 1
           /\ Elapsed(k) > 0

(***************************************************************************)
(* Claims about TextInput (TextSpec).                                      *)
(***************************************************************************)
\* C1 (as claimed): whatever updates and clear() calls the widget has seen,
\* the cursor index is between 0 and the length of the text.
C1_CursorInText == 0 <= ti.cursor_pos /\ ti.cursor_pos <= Len(ti.text)

\* the lower half of C1
CursorNotNegative == 0 <= ti.cursor_pos

\* the step is an update() with one TEXTINPUT event carrying t
Typed(t) ==
    \E pointer \in Pointers :
        ti' = TextInputUpdate(ti, pointer, <<TextInputEvent(t)>>)

NoSelectionFlags(w) == ~w._sel_on /\ ~w._ssel_on /\ ~w._sel_done

\* the focused widget has a finalized selection whose range is in the text
FinalizedSelection ==
    /\ ti.on_focus
    /\ ti._sel_done
    /\ 0 <= SelLow(ti)
    /\ SelHigh(ti) <= Len(ti.text)

\* C19 (as claimed): typing t over a finalized selection [s, e] gives
\* old[:s] + t + old[e:] with the cursor at s + len(t) and no selection
\* flag set.
C19_TypingReplacesSelection ==
    [][\A t \in TypedTexts :
           (FinalizedSelection /\ Typed(t)) =>
               /\ ti'.text = SliceTo(ti.text, SelLow(ti)) \o t
                                 \o SliceFrom(ti.text, SelHigh(ti))
               /\ ti'.cursor_pos = SelLow(ti) + Len(t)
               /\ NoSelectionFlags(ti')]_vars

\* what the code does with a selection that does not begin at the end of
\* the text: the text is as claimed, the cursor is at s + 1 whatever the
\* length of t
TypingOverSelection ==
    [][\A t \in TypedTexts :
           (FinalizedSelection /\ SelLow(ti) < Len(ti.text) /\ Typed(t)) =>
               /\ ti'.text = SliceTo(ti.text, SelLow(ti)) \o t
                                 \o SliceFrom(ti.text, SelHigh(ti))
               /\ ti'.cursor_pos = SelLow(ti) + 1
               /\ NoSelectionFlags(ti')]_vars

\* the focused widget has no selection and its cursor is in the text
NoSelection ==
    /\ ti.on_focus
    /\ NoSelectionFlags(ti)
    /\ 0 <= ti.cursor_pos
    /\ ti.cursor_pos <= Len(ti.text)

\* C20 (as claimed): typing t with no selection and the cursor at c gives
\* old[:c] + t + old[c:] with the cursor at c + len(t).
C20_TypingInsertsAtCursor ==
    [][\A t \in TypedTexts :
           (NoSelection /\ Typed(t)) =>
               /\ ti'.text = SliceTo(ti.text, ti.cursor_pos) \o t
                                 \o SliceFrom(ti.text, ti.cursor_pos)
               /\ ti'.cursor_pos = ti.cursor_pos + Len(t)]_vars

\* what the code does: the text is as claimed, the cursor moves by one
\* whatever the length of t
TypingMovesCursorByOne ==
    [][\A t \in TypedTexts :
           (NoSelection /\ Typed(t)) =>
               /\ ti'.text = SliceTo(ti.text, ti.cursor_pos) \o t
                                 \o SliceFrom(ti.text, ti.cursor_pos)
               /\ ti'.cursor_pos = ti.cursor_pos + 1]_vars

\* the focused widget has a selection in progress whose range is in the
\* text: a drag whose button is still down, or a Shift-extension before the
\* release of Shift
SelectionInProgress ==
    /\ ti.on_focus
    /\ ~ti._sel_done
    /\ ti._sel_on \/ ti._ssel_on
    /\ 0 <= SelLow(ti)
    /\ SelHigh(ti) <= Len(ti.text)

\* C21 (as claimed): typing t while a selection [s, e] is in progress gives
\* old[:s] + t + old[e:] with the cursor at s + len(t) and no selection
\* flag set.
C21_TypingReplacesSelectionInProgress ==
    [][\A t \in TypedTexts :
           (SelectionInProgress /\ Typed(t)) =>
               /\ ti'.text = SliceTo(ti.text, SelLow(ti)) \o t
                                 \o SliceFrom(ti.text, SelHigh(ti))
               /\ ti'.cursor_pos = SelLow(ti) + Len(t)
               /\ NoSelectionFlags(ti')]_vars

\* what the code does: during a drag the typed text is dropped, and during
\* a Shift-extension it is inserted at the cursor as if nothing were
\* selected, the selection staying in progress
TypingDuringSelection ==
    [][\A t \in TypedTexts :
           (SelectionInProgress /\ Typed(t)) =>
               /\ ~ti'._sel_done
               /\ ti'._sel_on = ti._sel_on
               /\ ti'._ssel_on = ti._ssel_on
               /\ ti'._sel_start = ti._sel_start
               /\ ti'.text = IF ti._sel_on THEN ti.text
                             ELSE InsertAtCursor(ti, t)]_vars

Lower(a, b) == IF a < b THEN a ELSE b

Higher(a, b) == IF a < b THEN b ELSE a

\* the step is an update() with one KEYDOWN event of the key and modifier
KeyPressed(key, mod) ==
    \E pointer \in Pointers :
        ti' = TextInputUpdate(ti, pointer, <<KeyDown(key, mod)>>)

\* C22 (as claimed): Backspace over a finalized selection [s, e] gives
\* old[:s] + old[e:] with the cursor at s and no selection flag set.
C22_BackspaceDeletesSelection ==
    [][\A mod \in {"KMOD_NONE", "KMOD_LCTRL"} :
           (FinalizedSelection /\ KeyPressed("K_BACKSPACE", mod)) =>
               /\ ti'.text = SliceTo(ti.text, SelLow(ti))
                                 \o SliceFrom(ti.text, SelHigh(ti))
               /\ ti'.cursor_pos = SelLow(ti)
               /\ NoSelectionFlags(ti')]_vars

\* what the code does with a selection that begins before the end of the
\* text: as claimed
BackspaceOverSelection ==
    [][\A mod \in {"KMOD_NONE", "KMOD_LCTRL"} :
           (/\ FinalizedSelection
            /\ SelLow(ti) < Len(ti.text)
            /\ KeyPressed("K_BACKSPACE", mod)) =>
               /\ ti'.text = SliceTo(ti.text, SelLow(ti))
                                 \o SliceFrom(ti.text, SelHigh(ti))
               /\ ti'.cursor_pos = SelLow(ti)
               /\ NoSelectionFlags(ti')]_vars

\* the pointer is away from the widget
Away == [x |-> -100, over |-> FALSE]

\* the widget after k updates with one plain Backspace each
RECURSIVE Backspaces(_, _)
Backspaces(w, k) ==
    IF k = 0 THEN w
    ELSE Backspaces(TextInputUpdate(w, Away,
                        <<KeyDown("K_BACKSPACE", "KMOD_NONE")>>), k - 1)

\* the widget after the characters of s arrived one TEXTINPUT event each
RECURSIVE TypeChars(_, _)
TypeChars(w, s) ==
    IF s = <<>> THEN w
    ELSE TypeChars(TextInputUpdate(w, Away, <<TextInputEvent(<<Head(s)>>)>>),
                   Tail(s))

\* the focused widget has no selection and its cursor is at the end of the
\* text
CursorAtEnd == NoSelection /\ ti.cursor_pos = Len(ti.text)

\* w holds the text with the cursor at its end
EndsWith(w, text) == w.text = text /\ w.cursor_pos = Len(text)

\* C23 (as claimed): a string typed at the end of the text and k plain
\* Backspaces after it leave the text followed by the string without its
\* last k characters, the cursor at the end; 'abc' typed into the empty
\* widget and two Backspaces leave 'a' with the cursor at 1; a plain
\* Backspace at cursor 0 changes nothing.
C23_BackspaceUndoesInsertion ==
    /\ CursorAtEnd =>
           \A t \in TypedTexts, k \in 0..MaxText :
               k <= Len(t) =>
                   EndsWith(Backspaces(TextInputUpdate(ti, Away,
                                           <<TextInputEvent(t)>>), k),
                            ti.text \o SubSeq(t, 1, Len(t) - k))
    /\ (CursorAtEnd /\ ti.text = <<>>) =>
           EndsWith(Backspaces(TextInputUpdate(ti, Away,
                                   <<TextInputEvent(<<"a", "b", "c">>)>>), 2),
                    <<"a">>)
    /\ (NoSelection /\ ti.cursor_pos = 0) =>
           /\ Backspaces(ti, 1).text = ti.text
           /\ Backspaces(ti, 1).cursor_pos = 0

\* what the code does: the claim holds of a string that arrives one
\* character per TEXTINPUT event
BackspaceUndoesTypedCharacters ==
    /\ CursorAtEnd =>
           \A t \in TypedTexts \cup {<<"a", "b", "c">>}, k \in 0..MaxText :
               k <= Len(t) =>
                   EndsWith(Backspaces(TypeChars(ti, t), k),
                            ti.text \o SubSeq(t, 1, Len(t) - k))
    /\ (NoSelection /\ ti.cursor_pos = 0) =>
           /\ Backspaces(ti, 1).text = ti.text
           /\ Backspaces(ti, 1).cursor_pos = 0

\* the pointer rests on the widget at x
Resting(x) == [x |-> x, over |-> TRUE]

\* the step is an update() with a left click at x, press and release in
\* one batch, the pointer resting at x
Clicked(x) ==
    ti' = TextInputUpdate(ti, Resting(x), <<MouseDown(x), MouseUp>>)

\* the left button went down at x in the text in an earlier update and the
\* pointer has rested there since
HeldAt(x) ==
    /\ ti.on_focus
    /\ ti._sel_on
    /\ ~ti._sel_done
    /\ coords_to_text_index(ti, x) # -1
    /\ ti._sel_start = coords_to_text_index(ti, x)
    /\ ti._sel_end = ti._sel_start

\* the step is an update() with the release of the left button, the
\* pointer resting at x
Released(x) == ti' = TextInputUpdate(ti, Resting(x), <<MouseUp>>)

NoSelectionLeft(w) == ~w._sel_done /\ get_selection(w) = <<>>

\* C26 (as claimed): a left click in the text without pointer movement
\* leaves no finalized selection and get_selection() empty, whether the
\* press and the release arrive in one update or in two.
C26_ClickSelectsNothing ==
    [][\A x \in Coords :
           /\ (coords_to_text_index(ti, x) # -1 /\ Clicked(x)) =>
                  NoSelectionLeft(ti')
           /\ (HeldAt(x) /\ Released(x)) => NoSelectionLeft(ti')]_vars

\* what the code does: the claim holds of a release that arrives in a
\* later update than the press
ClickInTwoUpdates ==
    [][\A x \in Coords :
           (HeldAt(x) /\ Released(x)) => NoSelectionFlags(ti')]_vars

\* the step is an update() with one KEYDOWN event of the key and modifier,
\* together with what the call did to the outside
KeyCall(key, mod) ==
    \E pointer \in Pointers :
        \E res \in {TextInputCall(ti, pointer, <<KeyDown(key, mod)>>)} :
            /\ ti' = res.w
            /\ ti_put' = res.put
            /\ ti_emitted' = res.emitted

\* C27 (as claimed): Ctrl+C with a finalized selection passes the text
\* between the lower and the higher selection marker to put_text(), once;
\* Ctrl+C without a finalized selection does not call put_text().
C27_CopyOnlyFinalizedSelection ==
    [][(ti.on_focus /\ KeyCall("K_c", "KMOD_LCTRL")) =>
           ti_put' = IF ti._sel_done
                     THEN <<Slice(ti.text,
                                  Lower(ti._sel_start, ti._sel_end),
                                  Higher(ti._sel_start, ti._sel_end))>>
                     ELSE <<>>]_vars

\* what the code does: with a finalized selection as claimed; during a
\* drag nothing; otherwise put_text() is called with the empty string
CopyPutsSelectionOrNothing ==
    [][(ti.on_focus /\ KeyCall("K_c", "KMOD_LCTRL")) =>
           ti_put' = IF ti._sel_done
                     THEN <<Slice(ti.text,
                                  Lower(ti._sel_start, ti._sel_end),
                                  Higher(ti._sel_start, ti._sel_end))>>
                     ELSE IF ti._sel_on THEN <<>> ELSE <<<<>>>>]_vars

\* the step is an update() with Ctrl+V while the clipboard holds p
Pasted(p) ==
    \E pointer \in Pointers :
        ti' = TextInputUpdate(ti, pointer, <<Paste(p)>>)

\* p with every newline removed
WithoutNewlines(p) == SelectSeq(p, LAMBDA ch : ch # "\n")

NoNewline(text) == \A i \in 1..Len(text) : text[i] # "\n"

\* C28 (as claimed): Ctrl+V with p on the clipboard and the cursor at c
\* gives old[:c] + p' + old[c:] with the cursor at c + len(p') when nothing
\* is selected, and old[:s] + p' + old[e:] with the cursor at s + len(p')
\* and no selection flag set when [s, e] is a finalized selection, p' being
\* p without its newlines; the text has no newline afterwards.
C28_PasteInsertsLikeTyping ==
    [][\A p \in Clipboards :
           /\ (NoSelection /\ Pasted(p)) =>
                  /\ ti'.text = SliceTo(ti.text, ti.cursor_pos)
                                    \o WithoutNewlines(p)
                                    \o SliceFrom(ti.text, ti.cursor_pos)
                  /\ ti'.cursor_pos = ti.cursor_pos + Len(WithoutNewlines(p))
                  /\ NoNewline(ti'.text)
           /\ (FinalizedSelection /\ Pasted(p)) =>
                  /\ ti'.text = SliceTo(ti.text, SelLow(ti))
                                    \o WithoutNewlines(p)
                                    \o SliceFrom(ti.text, SelHigh(ti))
                  /\ ti'.cursor_pos = SelLow(ti) + Len(WithoutNewlines(p))
                  /\ NoSelectionFlags(ti')
                  /\ NoNewline(ti'.text)]_vars

\* what the code does: as claimed when nothing is selected, and when the
\* selection begins before the end of the text and p' is not empty
PasteWhereItWorks ==
    [][\A p \in Clipboards :
           /\ (NoSelection /\ Pasted(p)) =>
                  /\ ti'.text = SliceTo(ti.text, ti.cursor_pos)
                                    \o WithoutNewlines(p)
                                    \o SliceFrom(ti.text, ti.cursor_pos)
                  /\ ti'.cursor_pos = ti.cursor_pos + Len(WithoutNewlines(p))
                  /\ NoNewline(ti'.text)
           /\ (/\ FinalizedSelection
               /\ SelLow(ti) < Len(ti.text)
               /\ WithoutNewlines(p) # <<>>
               /\ Pasted(p)) =>
                  /\ ti'.text = SliceTo(ti.text, SelLow(ti))
                                    \o WithoutNewlines(p)
                                    \o SliceFrom(ti.text, SelHigh(ti))
                  /\ ti'.cursor_pos = SelLow(ti) + Len(WithoutNewlines(p))
                  /\ NoSelectionFlags(ti')
                  /\ NoNewline(ti'.text)]_vars

\* the left button is down in the focused widget and the selection follows
\* the pointer
DragSelecting(w) == w.on_focus /\ w._sel_on /\ ~w._sel_done

\* C29 (as claimed): an Enter key-down in the focused widget emits
\* enter_pressed once, leaves the text and the cursor as they were and no
\* selection flag set, whatever the selection state.
C29_EnterEmitsOnce ==
    [][(ti.on_focus /\ KeyCall("K_RETURN", "KMOD_NONE")) =>
           /\ ti_emitted' = 1
           /\ ti'.text = ti.text
           /\ ti'.cursor_pos = ti.cursor_pos
           /\ NoSelectionFlags(ti')]_vars

\* what the code does: as claimed unless a drag is going on; during a drag
\* nothing is emitted and the drag goes on
EnterOutsideDrag ==
    [][(ti.on_focus /\ KeyCall("K_RETURN", "KMOD_NONE")) =>
           IF DragSelecting(ti)
           THEN ti_emitted' = 0 /\ DragSelecting(ti')
           ELSE /\ ti_emitted' = 1
                /\ ti'.text = ti.text
                /\ ti'.cursor_pos = ti.cursor_pos
                /\ NoSelectionFlags(ti')]_vars

(***************************************************************************)
(* Claims about the keyboard navigation of TextInput (NavSpec).            *)
(***************************************************************************)
\* the largest number of a set of naturals
Largest(S) == CHOOSE n \in S : \A m \in S : m <= n

\* the index c with the spaces immediately before it skipped
BeforeSpaces(text, c) ==
    Largest({j \in 0..c : j = 0 \/ text[j] # " "})

\* the index just after the last space among the first j characters, or 0
AfterLastSpace(text, j) ==
    Largest({i \in 0..j : i = 0 \/ text[i] = " "})

\* the beginning of the word left of the index c
WordLeft(text, c) == AfterLastSpace(text, BeforeSpaces(text, c))

\* the step is an update() with Ctrl+Left
CtrlLeft == nav_key' = KeyDown("K_LEFT", "KMOD_LCTRL")

\* C24: Ctrl+Left with no selection moves the cursor from c to the index
\* just after the last space before the word left of c, the spaces
\* immediately before c being skipped, or to 0, and leaves the text as it
\* was; in 'foo bar  baz' it moves the cursor from 12 to 9 and from 9 to 4.
C24_CtrlLeftToWordStart ==
    [][(NoSelection /\ CtrlLeft) =>
           /\ ti'.cursor_pos = WordLeft(ti.text, ti.cursor_pos)
           /\ ti'.text = ti.text
           /\ (ti.text = FooBarBaz /\ ti.cursor_pos = 12) =>
                  ti'.cursor_pos = 9
           /\ (ti.text = FooBarBaz /\ ti.cursor_pos = 9) =>
                  ti'.cursor_pos = 4]_vars

\* Ctrl+Left has just moved the cursor in 'foo bar  baz' to the beginning of
\* 'bar'
C24_Witness ==
    /\ nav_key = KeyDown("K_LEFT", "KMOD_LCTRL")
    /\ ti.text = FooBarBaz
    /\ ti.cursor_pos = 4
    /\ NoSelectionFlags(ti)

\* the step is an update() with Shift+Left or Shift+Right
ShiftMove ==
    nav_key' \in {KeyDown(k, "KMOD_LSHIFT") : k \in {"K_LEFT", "K_RIGHT"}}

\* the step is an update() with the release of Shift
ShiftUp == nav_key' = KeyUp("K_LSHIFT")

\* a Shift-extension is going on in the focused widget
ShiftExtending(w) ==
    w.on_focus /\ w._ssel_on /\ ~w._sel_on /\ ~w._sel_done

\* C25: the first Shift+Left/Right of a run, pressed at the cursor c0 with
\* nothing selected, anchors the selection at c0; every press of the run
\* keeps the anchor and puts the selection end at the cursor; the release
\* of Shift after a press of the run finalizes the selection, and
\* get_selection() is then text[min(c0, c):max(c0, c)] for the cursor c.
C25_ShiftRunSelects ==
    [][/\ (NoSelection /\ ShiftMove) =>
              /\ ShiftExtending(ti')
              /\ ti'._sel_start = ti.cursor_pos
              /\ ti'._sel_end = ti'.cursor_pos
       /\ (ShiftExtending(ti) /\ ShiftMove) =>
              /\ ShiftExtending(ti')
              /\ ti'._sel_start = ti._sel_start
              /\ ti'._sel_end = ti'.cursor_pos
       /\ (ShiftExtending(ti) /\ ti._sel_end = ti.cursor_pos /\ ShiftUp) =>
              /\ ti'._sel_done
              /\ ti'.text = ti.text
              /\ ti'.cursor_pos = ti.cursor_pos
              /\ get_selection(ti') =
                     SubSeq(ti.text,
                            Lower(ti._sel_start, ti.cursor_pos) + 1,
                            Higher(ti._sel_start, ti.cursor_pos))]_vars

\* Shift has just been released after a run that moved the cursor two
\* places or more away from the anchor
C25_Witness ==
    /\ nav_key = KeyUp("K_LSHIFT")
    /\ ti._sel_done
    /\ ti._ssel_on
    /\ ti._sel_end = ti.cursor_pos
    /\ Len(get_selection(ti)) >= 2

(***************************************************************************)
(* Claims about the scroll offset of TextInput (ScrollSpec).               *)
(***************************************************************************)
\* the widget after an update() with the one event
AfterEvent(pointer, event) == TextInputUpdate(ti, pointer, <<event>>)

\* the cursor is not right of the visible part of the text
CursorVisible(w) == CursorX(w) - w._scroll <= InputWidth(w)

\* the text is not scrolled beyond the cursor
ScrolledToCursor(w) == w._scroll <= CursorX(w)

\* the focused widget reads the keys: no drag is going on
KeysRead == ti.on_focus /\ ~DragSelecting(ti)

\* the focused widget inserts what is typed or pasted at the cursor and
\* moves the cursor with the arrow keys: no drag is going on and no
\* selection is finalized
CursorMoves == KeysRead /\ ~ti._sel_done

\* a plain insertion, a paste without selection and a Right move
ForwardEvents ==
    {TextInputEvent(t) : t \in TypedTexts}
        \cup {Paste(p) : p \in {p \in Clipboards : WithoutNewlines(p) # <<>>}}
        \cup {KeyDown("K_RIGHT", m) :
                 m \in {"KMOD_NONE", "KMOD_LCTRL", "KMOD_LSHIFT"}}

\* a Left move
BackwardEvents ==
    {KeyDown("K_LEFT", m) : m \in {"KMOD_NONE", "KMOD_LCTRL", "KMOD_LSHIFT"}}

\* C30: the scroll offset is never negative, whatever the widths of the
\* characters; after a plain insertion, a paste without selection, a Right
\* move and End the cursor is not right of the visible part of the text,
\* and after a Left move and Home the text is not scrolled beyond the
\* cursor.
C30_ScrollFollowsCursor ==
    /\ ti._scroll >= 0
    /\ \A pointer \in Pointers :
           /\ CursorMoves =>
                  /\ \A e \in ForwardEvents :
                         CursorVisible(AfterEvent(pointer, e))
                  /\ \A e \in BackwardEvents :
                         ScrolledToCursor(AfterEvent(pointer, e))
           /\ KeysRead =>
                  /\ CursorVisible(
                         AfterEvent(pointer, KeyDown("K_END", "KMOD_NONE")))
                  /\ ScrolledToCursor(
                         AfterEvent(pointer, KeyDown("K_HOME", "KMOD_NONE")))

\* a text of a letter and a narrower space has been scrolled on just as far
\* as the cursor needed
C30_Witness ==
    /\ ti.on_focus
    /\ ti.font # "fixed"
    /\ \E i, j \in 1..Len(ti.text) : ti.text[i] = " " /\ ti.text[j] = "a"
    /\ ti._scroll > 0
    /\ CursorX(ti) - ti._scroll = InputWidth(ti)

(***************************************************************************)
(* Claims about the blinking cursor of TextInput (BlinkSpec).              *)
(***************************************************************************)
\* the widget after an update() with the events, elapsed milliseconds after
\* the update before
AfterTimed(pointer, events, elapsed) ==
    TextInputTimedCall(ti, pointer, events, elapsed).w

\* the edit and navigation events that the focused widget handles: typing,
\* Backspace, a paste of something, Left and Right, select-all, and Home
\* and End in a text
EditAndNavigation ==
    {TextInputEvent(t) : t \in TypedTexts}
        \cup {Paste(<<"a">>), KeyDown("K_a", "KMOD_LCTRL")}
        \cup {KeyDown(k, "KMOD_NONE") :
                 k \in {"K_BACKSPACE", "K_LEFT", "K_RIGHT"}}
        \cup (IF Len(ti.text) > 0
              THEN {KeyDown(k, "KMOD_NONE") : k \in {"K_HOME", "K_END"}}
              ELSE {})

\* C31: right after an edit or navigation event that the focused widget
\* handles (typing with or without a selection, Backspace, paste, Left,
\* Right, Home, End, select-all, a click on the widget) the cursor is in
\* its visible phase: _cursor_blink is False.
C31_EditRestartsBlink ==
    KeysRead =>
        \A pointer \in Pointers, elapsed \in BlinkElapsed :
            /\ \A e \in EditAndNavigation :
                   ~AfterTimed(pointer, <<e>>, elapsed)._cursor_blink
            /\ pointer.over =>
                   ~AfterTimed(pointer, <<MouseDown(pointer.x), MouseUp>>,
                               elapsed)._cursor_blink

\* the events of C31 that restart the blink: typing without a selection,
\* Backspace, Left, Right, and Home and End in a text
BlinkRestarted ==
    KeysRead =>
        \A pointer \in Pointers, elapsed \in BlinkElapsed :
            \A e \in EditAndNavigation :
                (/\ e.type = "TEXTINPUT" => ~ti._sel_done
                 /\ e.type = "KEYDOWN" => e.key \notin {"K_v", "K_a"})
                    => ~AfterTimed(pointer, <<e>>, elapsed)._cursor_blink

(***************************************************************************)
(* Claims about the events of one batch of TextInput (TextSpec).           *)
(***************************************************************************)
\* the text input and key-down events
EditingEvents == {e \in Events : e.type \in {"TEXTINPUT", "KEYDOWN"}}

\* the text, the cursor and the selection of a widget
Edited(w) ==
    <<w.text, w.cursor_pos, w._sel_on, w._ssel_on, w._sel_done,
      w._sel_start, w._sel_end>>

\* C32: an editing event acts only if the widget is focused where the event
\* stands in the batch: before the click that gives the focus it changes
\* nothing (the batch ends as the click alone does), and before a click
\* outside the widget, which takes the focus, it is applied (text and
\* cursor end as after the event alone).
C32_EditsWhereFocused ==
    \A pointer \in Pointers, e \in EditingEvents :
        /\ (~ti.on_focus /\ pointer.over) =>
               Edited(TextInputUpdate(
                          ti, pointer, <<e, MouseDown(pointer.x), MouseUp>>))
                   = Edited(TextInputUpdate(
                                ti, pointer, <<MouseDown(pointer.x), MouseUp>>))
        /\ (KeysRead /\ ~pointer.over) =>
               LET alone == TextInputUpdate(ti, pointer, <<e>>)
                   both == TextInputUpdate(
                               ti, pointer, <<e, MouseDown(pointer.x)>>)
               IN  /\ ~both.on_focus
                   /\ both.text = alone.text
                   /\ both.cursor_pos = alone.cursor_pos

\* an update of the widget that is not focused at its end changes neither
\* text nor cursor, and an update that brings no mouse event to the widget
\* that is not focused changes nothing of text, cursor and selection
EditsOnlyIfFocusedAtEnd ==
    \A pointer \in Pointers, batch \in Batches :
        LET w == TextInputUpdate(ti, pointer, batch)
        IN  /\ ~w.on_focus => w.text = ti.text /\ w.cursor_pos = ti.cursor_pos
            /\ (~ti.on_focus
                /\ \A k \in 1..Len(batch) :
                       batch[k].type \in {"TEXTINPUT", "KEYDOWN", "KEYUP"})
                   => Edited(w) = Edited(ti)

(***************************************************************************)
(* Claims about the loop of solve_size_constraints (SolverSpec).           *)
(***************************************************************************)
\* the boxes eligible at the start: GROW and FLEX on a surplus, SHRINK and
\* FLEX on a deficit
EligibleAtStart ==
    {i \in 1..Len(sv_input) :
        \/ /\ RatLt(R(0), SvDiff)
           /\ Get(sv_input[i].size_behavior, sv_axis) \in {GROW, FLEX}
        \/ /\ RatLt(SvDiff, R(0))
           /\ Get(sv_input[i].size_behavior, sv_axis) \in {SHRINK, FLEX}}

\* every iteration of the while loop, from the given state of the loop on,
\* leaves fewer eligible boxes than it found or a remaining discrepancy of
\* at most EPSILON
RECURSIVE EveryIterationProgresses(_, _, _)
EveryIterationProgresses(widgets, remaining, eligible) ==
    (RatLt(EPSILON, remaining) /\ Len(eligible) > 0) =>
        LET st == SolveInner([widgets |-> widgets, remaining |-> remaining,
                              new_eligible |-> <<>>],
                             eligible, 1, sv_axis, SvDirection,
                             Share(remaining, eligible))
        IN  /\ \/ Len(st.new_eligible) < Len(eligible)
               \/ RatLe(st.remaining, EPSILON)
            /\ EveryIterationProgresses(st.widgets, st.remaining,
                                        st.new_eligible)

CrossAxis == 1 - MainAxis

CrossLength == Get(st_stack.current_size, CrossAxis)

\* the cross-axis size C34 gives a child: from the cross-axis length A of
\* the stack and the child's own behaviour, preferred size P, minimum and
\* maximum
ClaimedCrossSize(w) ==
    LET A == CrossLength
        P == Get(w.preferred_size, CrossAxis)
        mn == Get(w.minimum_size, CrossAxis)
        mx == Get(w.maximum_size, CrossAxis)
        beh == Get(w.size_behavior, CrossAxis)
        grow == IF mx = R(0) THEN A ELSE RatMin(mx, A)
        shrink == IF RatLt(A, P) THEN RatMax(mn, A) ELSE P
    IN  IF beh = FIXED THEN P
        ELSE IF beh = GROW THEN grow
        ELSE IF beh = SHRINK THEN shrink
        ELSE IF RatLt(A, P) THEN shrink ELSE grow

CallsOf(call, x) ==
    {k \in 1..Len(ow_last.log) :
        ow_last.log[k] = [call |-> call, of |-> x]}

\* C35: within one update() pass over a tree, the _realign of every
\* descendant layout runs before the _realign of each of its ancestors,
\* every layout's _realign runs at most once, and the update() of a widget
\* runs only after the _realign of its parent layout in that pass.
C35_BottomUpPass ==
    ow_last.op = "update" =>
        /\ \A d \in OwLayouts : \A a \in Ancestors(ow_parent, d) :
               \A i \in CallsOf("_realign", d), j \in CallsOf("_realign", a) :
                   i < j
        /\ \A l \in OwLayouts : Cardinality(CallsOf("_realign", l)) <= 1
        /\ \A w \in OwWidgets :
               \A i \in CallsOf("update", w) :
                   /\ ow_parent[w] # NoParent
                   /\ \A j \in CallsOf("_realign", ow_parent[w]) : j < i

\* a pass over a tree three layouts deep in which all three ran _realign
\* and a widget of the middle layout and one of the root were updated
C35_Witness ==
    /\ ow_last.op = "update"
    /\ \E root, mid, leaf \in OwLayouts :
           /\ ow_parent[leaf] = mid
           /\ ow_parent[mid] = root
           /\ ow_last.layout = root
           /\ \A l \in {root, mid, leaf} : CallsOf("_realign", l) # {}
           /\ \E v, w \in OwWidgets :
                  /\ ow_parent[v] = mid
                  /\ ow_parent[w] = root
                  /\ CallsOf("update", v) # {}
                  /\ CallsOf("update", w) # {}

(***************************************************************************)
(* Claims about nested stacks (NestSpec).                                  *)
(***************************************************************************)
\* the current size and the relative position of every box of the list
\* and of the children of its stacks
Geometry(children) ==
    [i \in 1..Len(children) |->
        [current_size |-> children[i].current_size,
         relative_position |-> children[i].relative_position,
         children |->
             IF IsStack(children[i])
             THEN [k \in 1..Len(children[i].children) |->
                      <<children[i].children[k].current_size,
                        children[i].children[k].relative_position>>]
             ELSE <<>>]]

\* what one more root.update() would leave
UpdatedAgain == Stack_update(st_stack, st_children, st_need_realign)

\* C36: one update pass settles a tree with nested stacks: after a
\* root.update() that follows a change, a second root.update() changes no
\* current size and no relative position anywhere in the tree.
C36_OnePassSettles ==
    st_last = "update" => Geometry(UpdatedAgain.children) = Geometry(st_children)

\* what does hold: the second pass settles the tree, a third changes
\* nothing
TwoPassesSettle ==
    st_last = "update_again" =>
        Geometry(UpdatedAgain.children) = Geometry(st_children)

\* C37: a hidden widget of a nested stack does not count in the main-axis
\* preferred and minimum size that the pre-pass of the parent computes for
\* the nested stack: the sum (same direction) or the maximum (different
\* direction) is over the visible children of the nested stack only.
C37_HiddenLeftOutOfFit ==
    (st_last \in {"update", "update_again"} /\ st_raised = "none") =>
        \A i \in 1..Len(st_children) :
            (/\ IsStack(st_children[i])
             /\ st_children[i].is_visible
             /\ VisibleChildren(st_children[i].children) # <<>>) =>
                LET fit == Fitted(st_stack, st_children[i],
                               SmallestFitVisible(st_children[i],
                                                  st_stack.direction)).child
                IN  /\ Get(st_children[i].preferred_size, st_stack.direction)
                         = Get(fit.preferred_size, st_stack.direction)
                    /\ Get(st_children[i].minimum_size, st_stack.direction)
                         = Get(fit.minimum_size, st_stack.direction)

\* what does hold: the pre-pass fits the nested stack to all of its
\* children, and so to the visible ones when none is hidden
FitOverAllChildren ==
    (st_last \in {"update", "update_again"} /\ st_raised = "none") =>
        \A i \in 1..Len(st_children) :
            (IsStack(st_children[i]) /\ st_children[i].is_visible) =>
                /\ Get(st_children[i].preferred_size, st_stack.direction)
                     = Get(Fitted(st_stack, st_children[i],
                                  SmallestFit(st_children[i],
                                              st_stack.direction))
                               .child.preferred_size, st_stack.direction)

(***************************************************************************)
(* Claims about the selection markers of TextInput (TextSpec).             *)
(***************************************************************************)
\* C38: whenever the selection is finalized, both markers are indices of
\* the text: 0 <= min(_sel_start, _sel_end) and
\* max(_sel_start, _sel_end) <= len(text).
C38_FinalizedMarkersInText ==
    ti._sel_done =>
        /\ 0 <= Lower(ti._sel_start, ti._sel_end)
        /\ Higher(ti._sel_start, ti._sel_end) <= Len(ti.text)

(***************************************************************************)
(* Claims about Ctrl+V with nothing to paste (TextSpec).                   *)
(***************************************************************************)
\* the clipboards that leave nothing to paste: empty, or newlines only
NothingToPaste == {<<>>, <<"\n">>}

\* what an update leaves behind: the widget, the texts put on the clipboard
\* and the number of enter_pressed emissions
Outcome(r) == <<r.w, r.put, r.emitted>>

\* C39: Ctrl+V with an empty or newline-only clipboard does not disturb
\* the rest of the update: the events that follow it in the batch and the
\* tracking of the pointer at the end of update() are processed as if the
\* paste event were not in the batch.
C39_EmptyPasteIsAbsent ==
    \A pointer \in Pointers, clipboard \in NothingToPaste :
       /\ Outcome(TextInputCall(ti, pointer, <<Paste(clipboard)>>))
              = Outcome(TextInputCall(ti, pointer, <<>>))
       /\ \A e \in Events :
              Outcome(TextInputCall(ti, pointer, <<Paste(clipboard), e>>))
                  = Outcome(TextInputCall(ti, pointer, <<e>>))

(***************************************************************************)
(* Claims about the legacy VerticalStack.realign (LegacySpec).             *)
(***************************************************************************)
\* C40: the exception "there has to be a bug in the redistribution code"
\* is never raised: after the rounds of the redistribution no widget that
\* is still growing has preferred height + h_each above its maximum.
C40_RedistributionEndsWithinMaximum ==
    vs_pc = "done" =>
        /\ vs_result.raised # "Exception"
        /\ \A k \in 1..Len(vs_result.new_growables) :
               LET child == vs_children[vs_result.new_growables[k]]
               IN  HasMaximum(vs_variant, child) =>
                       RatLe(RatAdd(R(child.preferred), vs_result.h_each),
                             R(child.maximum))

\* a call in which one widget met its maximum, was taken out of the
\* growables, and another widget with a maximum went on growing
C40_Witness ==
    /\ vs_pc = "done"
    /\ vs_result.raised = "none"
    /\ vs_result.rounds >= 2
    /\ Len(vs_result.new_growables) < Len(Growables(vs_children))
    /\ \E k \in 1..Len(vs_result.new_growables) :
           /\ HasMaximum(vs_variant, vs_children[vs_result.new_growables[k]])
           /\ RatLt(R(0), vs_result.h_each)

====
